---- MODULE Spec2Model ----
(***************************************************************************)
(* Order lifecycle and payment settlement of pallet-spaces                 *)
(* (backend/src/plugins/orders.rs, backend/src/plugins/users.rs).          *)
(*                                                                         *)
(* The store (tables Orders, Posts, users) is the shared state.  Every     *)
(* HTTP handler runs as its own task; a handler that awaits between two    *)
(* SQL statements is split there, and a task suspended at such a point     *)
(* occupies a slot of `tasks`.  Every SQL statement is atomic.             *)
(*                                                                         *)
(* Option<T> is a sequence of length at most one: None is <<>> and         *)
(* Some(x) is <<x>>.  A NULL column is None.                               *)
(***************************************************************************)
EXTENDS Integers, Sequences, FiniteSets, TLC

\* ------------------------------------------------------------------ bounds
MaxOrders == 2
MaxTasks == 1
MaxGwCalls == 2
NumUsers == 2

\* ----------------------------------------------------------------- Option
None == <<>>
Some(x) == <<x>>
is_some(o) == Len(o) = 1
unwrap(o) == o[1]
unwrap_or(o, dflt) == IF is_some(o) THEN o[1] ELSE dflt

\* ------------------------------------------------------------- date texts
\* A text sent as a date: "YYYY-MM-DD" with the numbers y, m, d (which need
\* not name a calendar day), a blank text ("" or only whitespace), or some
\* other text that is no date.
Ymd(y, m, d) == [kind |-> "ymd", y |-> y, m |-> m, d |-> d]
Blank == [kind |-> "blank", y |-> 0, m |-> 0, d |-> 0]
Junk == [kind |-> "junk", y |-> 0, m |-> 0, d |-> 0]

trim_is_empty(s) == s.kind = "blank"

IsLeap(y) == (y % 4 = 0 /\ y % 100 # 0) \/ y % 400 = 0

DaysInMonth(y, m) ==
    IF m = 2 THEN (IF IsLeap(y) THEN 29 ELSE 28)
    ELSE IF m \in {4, 6, 9, 11} THEN 30 ELSE 31

RECURSIVE DaysBeforeMonth(_, _)
DaysBeforeMonth(y, m) ==
    IF m <= 1 THEN 0 ELSE DaysBeforeMonth(y, m - 1) + DaysInMonth(y, m - 1)

\* chrono::NaiveDate as the number of its day in the proleptic Gregorian
\* calendar; NaiveDate's order and difference are those of this number.
DayNumber(y, m, d) ==
    365 * (y - 1) + ((y - 1) \div 4) - ((y - 1) \div 100) + ((y - 1) \div 400)
        + DaysBeforeMonth(y, m) + d

\* chrono::NaiveDate::parse_from_str(s, "%Y-%m-%d"), as Result::ok().
parse_from_str(s) ==
    IF s.kind = "ymd" /\ s.m \in 1..12 /\ s.d \in 1..DaysInMonth(s.y, s.m)
    THEN Some(DayNumber(s.y, s.m, s.d))
    ELSE None

\* --------------------------------------------------------------- entities
Users == 1..NumUsers
\* auth.user of a request: a user id, or Anonymous when there is no session.
Anonymous == 0
Callers == Users \cup {Anonymous}

EmailOf(u) == <<"user", u>>
NameOf(u) == <<"name", u>>

\* users rows: linked payout account and verified flag.  User 1 is a seller
\* who linked account 1 and was verified; the other users have none.
InitUsers ==
    [u \in Users |->
        [name |-> NameOf(u),
         email |-> EmailOf(u),
         stripe_connect_account_id |-> IF u = 1 THEN Some(1) ELSE None,
         stripe_connect_verified |-> IF u = 1 THEN 1 ELSE 0]]

\* The title of a post: a text.
Title(n) == <<"title", n>>

\* Posts rows.  Post 1 was created through the listing form (normalised
\* dates); post 2 is a legacy row whose window columns are empty.
InitPosts ==
    << [title |-> Title(1), user_id |-> 1, price |-> 25, spaces_available |-> 5,
        available_date |-> Ymd(2025, 1, 1), end_date |-> Ymd(2025, 3, 1),
        visible |-> 1],
       [title |-> Title(2), user_id |-> 1, price |-> 10, spaces_available |-> 1,
        available_date |-> Blank, end_date |-> Blank,
        visible |-> 1] >>

VARIABLES
    orders,     \* table Orders: row id = index (AUTOINCREMENT, never deleted)
    posts,      \* table Posts: row id = index
    users,      \* table users: id -> row
    tasks,      \* slot -> handler suspended between two statements, or Idle
    gw_log,     \* checkout-session requests made to the gateway
    cfg,        \* build and start-up configuration
    resp        \* the last response sent

vars == <<orders, posts, users, tasks, gw_log, cfg, resp>>


\* -------------------------------------------------------------- responses
StatusOK == 200
StatusSeeOther == 303
StatusBadRequest == 400
StatusForbidden == 403
StatusNotFound == 404
StatusInternalServerError == 500

\* A response: the handler and its caller and path id, the status, and for a
\* redirect its target (`to`) with the id or session the target names.
Response(op, user, id, status, to, arg) ==
    [op |-> op, user |-> user, id |-> id, status |-> status, to |-> to, arg |-> arg]

NoResponse == Response("none", Anonymous, 0, 0, "", 0)

\* Redirect::to("/login?next=...")
LoginRedirect(op, user, id) == Response(op, user, id, StatusSeeOther, "/login", 0)

\* ------------------------------------------------------------------ tasks
Slots == 1..MaxTasks

\* A suspended handler: which one, where it resumes, its caller, the order
\* id of its path, the order row it loaded, and the session it was given.
Task(op, pc, user, id, row, session) ==
    [op |-> op, pc |-> pc, user |-> user, id |-> id, row |-> row, session |-> session]

Idle == Task("idle", "", Anonymous, 0, None, None)

FreeSlots == {t \in Slots : tasks[t] = Idle}
\* A new request takes the first free slot.
FirstFree == CHOOSE t \in FreeSlots : \A t2 \in FreeSlots : t <= t2

\* ---------------------------------------------------------- configuration
\* stripe: the build has feature "stripe"; client: AppState::stripe is Some;
\* secret: STRIPE_WEBHOOK_SECRET, which only a build with the feature reads,
\* is set and not empty.
Configs ==
    {c \in [stripe : BOOLEAN, client : BOOLEAN, secret : BOOLEAN] :
        (c.client => c.stripe) /\ (c.secret => c.stripe)}

\* --------------------------------------------------------- store queries
\* SELECT * FROM Orders WHERE id=?1 (fetch_optional)
fetch_order(order_id) ==
    IF order_id \in 1..Len(orders) THEN Some(orders[order_id]) ELSE None

\* Post::retrieve / SELECT * FROM Posts WHERE id=?1
fetch_post(id) ==
    IF id \in 1..Len(posts) THEN Some(posts[id]) ELSE None

\* -------------------------------------------------- Order::rent_request
\* The form of a rent request.
NewOrder(quantity, start_date, end_date) ==
    [quantity |-> quantity, start_date |-> start_date, end_date |-> end_date]

\* "Validate minimal fields"
minimal_fields_invalid(payload) ==
    \/ payload.quantity <= 0
    \/ trim_is_empty(payload.start_date)
    \/ trim_is_empty(payload.end_date)

\* A faulty variant of the range check: both ends must be outside.
out_of_post_range_both(start_date, end_date, post_start, post_end) ==
    start_date < post_start /\ end_date > post_end

\* "enforce within post range": TRUE when the request is rejected.
out_of_post_range(start_date, end_date, post_start, post_end) ==
    start_date < post_start \/ end_date > post_end

\* The date checks of rent_request on a loaded post: TRUE when they pass.
dates_valid(payload, post) ==
    LET start_date == parse_from_str(payload.start_date)
        end_date == parse_from_str(payload.end_date)
    IN  /\ is_some(start_date)
        /\ is_some(end_date)
        /\ ~(unwrap(end_date) < unwrap(start_date))
        /\ LET post_start == unwrap_or(parse_from_str(post.available_date), unwrap(start_date))
               post_end == unwrap_or(parse_from_str(post.end_date), unwrap(end_date))
           IN  ~out_of_post_range(unwrap(start_date), unwrap(end_date), post_start, post_end)

\* A faulty variant of the inserted status: that of Order::new.
InsertedStatus_of_new == "pending"

\* The status a new order is inserted with.
InsertedStatus == "pending_review"

\* The row that the INSERT of rent_request creates.
inserted_order(id, user, payload) ==
    [post_id |-> id,
     renter_user_id |-> user,
     renter_name |-> users[user].name,
     renter_email |-> users[user].email,
     quantity |-> payload.quantity,
     start_date |-> payload.start_date,
     end_date |-> payload.end_date,
     status |-> InsertedStatus,
     stripe_session_id |-> None,
     stripe_checkout_url |-> None]

\* How rent_request ends for a caller, a post id and a form.
rent_outcome(user, id, payload) ==
    IF user = Anonymous THEN "login"
    ELSE IF minimal_fields_invalid(payload) THEN "bad_request"
    ELSE IF ~is_some(fetch_post(id)) THEN "not_found"
    ELSE IF ~dates_valid(payload, unwrap(fetch_post(id))) THEN "bad_request"
    ELSE "insert"

\* A faulty variant of the rent request: the renter is sent to the list of
\* their orders instead of the confirm page of the new order.
rent_request_to_order_list(user, id, payload, insert_ok) ==
    LET outcome == rent_outcome(user, id, payload) IN
    /\ outcome = "insert" /\ insert_ok => Len(orders) < MaxOrders
    /\ orders' = IF outcome = "insert" /\ insert_ok
                 THEN Append(orders, inserted_order(id, user, payload))
                 ELSE orders
    /\ resp' = CASE outcome = "login" -> LoginRedirect("rent", user, id)
                 [] outcome = "bad_request" -> Response("rent", user, id, StatusBadRequest, "", 0)
                 [] outcome = "not_found" -> Response("rent", user, id, StatusNotFound, "", 0)
                 [] outcome = "insert" /\ ~insert_ok ->
                        Response("rent", user, id, StatusInternalServerError, "", 0)
                 [] OTHER ->
                        Response("rent", user, id, StatusSeeOther, "/orders", 0)
    /\ UNCHANGED <<posts, users, tasks, gw_log, cfg>>

\* POST /posts/{id}/rent.  The handler reads the post and then inserts; the
\* post row is not written by any handler modelled here and the INSERT reads
\* nothing, so the two statements are taken as one step.  insert_ok: the
\* INSERT succeeded.
rent_request(user, id, payload, insert_ok) ==
    LET outcome == rent_outcome(user, id, payload) IN
    /\ outcome = "insert" /\ insert_ok => Len(orders) < MaxOrders
    /\ orders' = IF outcome = "insert" /\ insert_ok
                 THEN Append(orders, inserted_order(id, user, payload))
                 ELSE orders
    /\ resp' = CASE outcome = "login" -> LoginRedirect("rent", user, id)
                 [] outcome = "bad_request" -> Response("rent", user, id, StatusBadRequest, "", 0)
                 [] outcome = "not_found" -> Response("rent", user, id, StatusNotFound, "", 0)
                 [] outcome = "insert" /\ ~insert_ok ->
                        Response("rent", user, id, StatusInternalServerError, "", 0)
                 [] OTHER ->
                        Response("rent", user, id, StatusSeeOther, "/orders/{}/confirm", Len(orders) + 1)
    /\ UNCHANGED <<posts, users, tasks, gw_log, cfg>>

\* ------------------------------------------------ ownership and updates
\* order.renter_user_id != user.id()
is_renter(order, user) == order.renter_user_id = user

\* A faulty variant of the UPDATE: the WHERE clause is left out, and every
\* row is written.
update_order_every_row(rows, order_id, set, ok) ==
    IF ok
    THEN [id \in DOMAIN rows |->
            [f \in DOMAIN rows[id] |->
                IF f \in DOMAIN set THEN set[f] ELSE rows[id][f]]]
    ELSE rows

\* UPDATE Orders SET <assignments of `set`> WHERE id=?1 on the table `rows`:
\* the table after the statement.  ok: the statement succeeded; a failed
\* statement changes nothing, and the callers below discard its result
\* (`let _ =`).
update_order(rows, order_id, set, ok) ==
    IF ok /\ order_id \in 1..Len(rows)
    THEN [rows EXCEPT ![order_id] =
            [f \in DOMAIN rows[order_id] |->
                IF f \in DOMAIN set THEN set[f] ELSE rows[order_id][f]]]
    ELSE rows

\* ------------------------------------------------ Order::confirm_submit
\* The session of the n-th request to the gateway: its id and its URL.
session_of(n) == [id |-> <<"cs", n>>, url |-> <<"checkout", n>>]

\* A faulty variant of the UPDATE with a session: the checkout URL is left
\* out.
submitted_without_url(session) ==
    [status |-> "submitted", stripe_session_id |-> Some(session.id)]

\* A faulty variant of the UPDATE with a session: the session is stored and
\* the order is left in review.
submitted_with_session_in_review(session) ==
    [status |-> "pending_review",
     stripe_session_id |-> Some(session.id),
     stripe_checkout_url |-> Some(session.url)]

\* UPDATE Orders SET status='submitted', stripe_session_id=?1,
\* stripe_checkout_url=?2 WHERE id=?3
submitted_with_session(session) ==
    [status |-> "submitted",
     stripe_session_id |-> Some(session.id),
     stripe_checkout_url |-> Some(session.url)]

\* A faulty variant of the UPDATE without a session: the status is not
\* advanced.
submitted_pending_not_advanced == [status |-> "pending_review"]

\* UPDATE Orders SET status='submitted' WHERE id=?1
submitted_pending == [status |-> "submitted"]

\* i64::max
max(a, b) == IF a >= b THEN a ELSE b

\* chrono::Local::now().date_naive(), the start date of an order whose
\* stored start_date does not parse; rent_request stores only dates that
\* parse.
Today == DayNumber(2025, 1, 1)

\* A faulty variant of the day count: both ends of the range are counted.
num_days_inclusive(order) ==
    LET start_date == unwrap_or(parse_from_str(order.start_date), Today)
        end_date == unwrap_or(parse_from_str(order.end_date), start_date)
    IN  max(end_date - start_date + 1, 1)

\* let days = (end_date - start_date).num_days().max(1)
num_days(order) ==
    LET start_date == unwrap_or(parse_from_str(order.start_date), Today)
        end_date == unwrap_or(parse_from_str(order.end_date), start_date)
    IN  max(end_date - start_date, 1)

\* (post.price as i64) * 100
price_cents_per_day(post) == post.price * 100

\* i64::saturating_mul.  The product saturates at i64::MAX, which the
\* products of the quantities and day counts of the inputs stay far below.
saturating_mul(a, b) == a * b

\* quantity.saturating_mul(days.max(1))
total_units(quantity, days) == saturating_mul(quantity, max(days, 1))

\* total_units.try_into().unwrap_or(0), to u64
try_into_or_0(n) == IF n >= 0 THEN n ELSE 0

\* The checkout session confirm_submit asks the gateway for: one line item
\* with a unit amount and a quantity, and the order id as metadata.
checkout_request(order_id, order, post) ==
    [op |-> "checkout",
     order_id |-> order_id,
     unit_amount |-> price_cents_per_day(post),
     quantity |-> try_into_or_0(total_units(order.quantity, num_days(order)))]

\* POST /orders/{id}/confirm up to the gateway call: the login, the order
\* and post lookups and the ownership check.
confirm_submit(user, order_id) ==
    LET order == fetch_order(order_id)
        reply(r) == /\ resp' = r
                    /\ UNCHANGED <<orders, posts, users, tasks, gw_log, cfg>>
    IN
    IF user = Anonymous THEN reply(LoginRedirect("confirm", user, order_id))
    ELSE IF ~is_some(order)
        THEN reply(Response("confirm", user, order_id, StatusNotFound, "", 0))
    ELSE IF ~is_renter(unwrap(order), user)
        THEN reply(Response("confirm", user, order_id, StatusForbidden, "", 0))
    ELSE IF ~is_some(fetch_post(unwrap(order).post_id))
        THEN reply(Response("confirm", user, order_id, StatusNotFound, "", 0))
    ELSE
        /\ FreeSlots # {}
        /\ tasks' = [tasks EXCEPT ![FirstFree] =
                        Task("confirm",
                             IF cfg.stripe /\ cfg.client THEN "gateway" ELSE "update",
                             user, order_id, order, None)]
        /\ UNCHANGED <<orders, posts, users, gw_log, cfg, resp>>

\* A faulty variant of the gateway call: a failure of the gateway ends the
\* request with 500.
submit_stripe_checkout_session_propagating(t, created) ==
    /\ tasks[t].op = "confirm" /\ tasks[t].pc = "gateway"
    /\ Len(gw_log) < MaxGwCalls
    /\ gw_log' = Append(gw_log, checkout_request(tasks[t].id, unwrap(tasks[t].row),
                                                  unwrap(fetch_post(unwrap(tasks[t].row).post_id))))
    /\ IF created
       THEN /\ tasks' = [tasks EXCEPT ![t].pc = "update",
                                      ![t].session = Some(session_of(Len(gw_log) + 1))]
            /\ resp' = resp
       ELSE /\ tasks' = [tasks EXCEPT ![t] = Idle]
            /\ resp' = Response("confirm", tasks[t].user, tasks[t].id,
                                StatusInternalServerError, "", 0)
    /\ UNCHANGED <<orders, posts, users, cfg>>

\* service::submit_stripe_checkout_session: the request reaches the gateway,
\* which answers with a session (Ok(Some)) or fails (logged, Ok(None)).
submit_stripe_checkout_session(t, created) ==
    /\ tasks[t].op = "confirm" /\ tasks[t].pc = "gateway"
    /\ Len(gw_log) < MaxGwCalls
    /\ gw_log' = Append(gw_log, checkout_request(tasks[t].id, unwrap(tasks[t].row),
                                                  unwrap(fetch_post(unwrap(tasks[t].row).post_id))))
    /\ tasks' = [tasks EXCEPT ![t].pc = "update",
                              ![t].session =
                                  IF created THEN Some(session_of(Len(gw_log) + 1))
                                  ELSE None]
    /\ UNCHANGED <<orders, posts, users, cfg, resp>>

\* The end of confirm_submit: the UPDATE and the response.
confirm_submit_update(t, ok) ==
    /\ tasks[t].op = "confirm" /\ tasks[t].pc = "update"
    /\ LET submitted == is_some(tasks[t].session)
           order_id == tasks[t].id
       IN  IF submitted
           THEN /\ orders' = update_order(orders, order_id,
                                submitted_with_session(unwrap(tasks[t].session)), ok)
                /\ resp' = Response("confirm", tasks[t].user, order_id, StatusSeeOther,
                                    "checkout", unwrap(tasks[t].session).id[2])
           ELSE /\ orders' = update_order(orders, order_id, submitted_pending, ok)
                /\ resp' = Response("confirm", tasks[t].user, order_id, StatusOK, "", 0)
    /\ tasks' = [tasks EXCEPT ![t] = Idle]
    /\ UNCHANGED <<posts, users, gw_log, cfg>>

\* -------------------------------------------------- Order::cancel_order
\* A faulty variant of the cancel UPDATE: the session fields are cleared.
cancelled_clearing_session ==
    [status |-> "cancelled", stripe_session_id |-> None, stripe_checkout_url |-> None]

\* UPDATE Orders SET status='cancelled' WHERE id=?1
cancelled == [status |-> "cancelled"]

\* SELECT renter_user_id FROM Orders WHERE id=?1 (fetch_one, .ok())
fetch_owner(order_id) ==
    IF is_some(fetch_order(order_id))
    THEN Some(unwrap(fetch_order(order_id)).renter_user_id)
    ELSE None

\* A faulty variant of the ownership check: only a missing order is refused.
owner_mismatch_only_missing(owner, user) == owner = None

\* owner != Some(user.id())
owner_mismatch(owner, user) == owner # Some(user)

\* POST /orders/{id}/cancel.  The handler reads the owner and then
\* updates; renter_user_id is never written and no row is ever deleted, so
\* the owner read is the same wherever it falls before the UPDATE, and the
\* two statements are taken as one step at the UPDATE.  ok: the UPDATE
\* succeeded.
cancel_order(user, order_id, ok) ==
    /\ orders' = IF user # Anonymous /\ ~owner_mismatch(fetch_owner(order_id), user)
                 THEN update_order(orders, order_id, cancelled, ok)
                 ELSE orders
    /\ resp' = IF user = Anonymous THEN LoginRedirect("cancel", user, order_id)
               ELSE IF owner_mismatch(fetch_owner(order_id), user)
                    THEN Response("cancel", user, order_id, StatusForbidden, "", 0)
               ELSE Response("cancel", user, order_id, StatusSeeOther, "/orders", 0)
    /\ UNCHANGED <<posts, users, tasks, gw_log, cfg>>

\* ------------------------------------------------- User::stripe_webhook
\* The text of metadata.order_id: absent, digits of a number, or other text
\* (kind "text").
MetaAbsent == [kind |-> "absent", n |-> 0]
MetaDigits(n) == [kind |-> "digits", n |-> n]

\* order_id_s.parse::<i64>() of a present metadata.order_id, as Result::ok().
parse_i64(text) == IF text.kind = "digits" THEN Some(text.n) ELSE None

\* A delivered body.  json: it is JSON of an event; type: the event type;
\* order_id: data.object.metadata.order_id; aid: data.object.id ("" is 0);
\* charges, payouts: "true", "false" or "absent"; due:
\* requirements.currently_due, "absent", "empty" or "nonempty".
Event(json, type, order_id, aid, charges, payouts, due) ==
    [json |-> json, type |-> type, order_id |-> order_id, aid |-> aid,
     charges |-> charges, payouts |-> payouts, due |-> due]

Malformed == Event(FALSE, "", MetaAbsent, 0, "absent", "absent", "absent")
CheckoutCompleted(order_id) ==
    Event(TRUE, "checkout.session.completed", order_id, 0, "absent", "absent", "absent")
AccountUpdated(aid, charges, payouts, due) ==
    Event(TRUE, "account.updated", MetaAbsent, aid, charges, payouts, due)
OtherEvent == Event(TRUE, "customer.created", MetaAbsent, 0, "absent", "absent", "absent")

\* The Stripe-Signature header: absent (read as ""), the signature of the
\* body under the shared secret, or anything else.
Signatures == {"", "valid", "invalid"}

\* stripe::Webhook::construct_event(&body, sig, &secret).is_ok(): the
\* signature is the body's under the secret and the body parses as an event.
construct_event(body, sig) == sig = "valid" /\ body.json

\* v.as_bool().unwrap_or(false)
as_bool_or_false(v) == v = "true"

\* (charges && payouts) || due_empty
connect_verified(charges, payouts, due_empty) == (charges /\ payouts) \/ due_empty

\* A faulty variant of the payment update: the status literal of confirm.
paid_as_submitted == [status |-> "submitted"]

\* UPDATE Orders SET status='paid' WHERE id=?1
paid == [status |-> "paid"]

\* The order id a checkout.session.completed event names, if it names one.
event_order_id(body) ==
    IF body.type = "checkout.session.completed" /\ body.order_id.kind # "absent"
    THEN parse_i64(body.order_id)
    ELSE None

\* A faulty variant of the account UPDATE: the WHERE clause is left out.
set_verified_every_row(rows, aid, verified, ok) ==
    IF ok
    THEN [u \in DOMAIN rows |->
            [rows[u] EXCEPT !.stripe_connect_verified = IF verified THEN 1 ELSE 0]]
    ELSE rows

\* UPDATE users SET stripe_connect_verified=?1 WHERE
\* stripe_connect_account_id=?2 on the table `rows`.
set_verified_by_account(rows, aid, verified, ok) ==
    IF ok
    THEN [u \in DOMAIN rows |->
            IF rows[u].stripe_connect_account_id = Some(aid)
            THEN [rows[u] EXCEPT !.stripe_connect_verified = IF verified THEN 1 ELSE 0]
            ELSE rows[u]]
    ELSE rows

\* How the handler treats a delivery: "ack" (200 without looking at it),
\* "reject" (400) or "process".
webhook_outcome(sig, body) ==
    IF ~cfg.stripe THEN "ack"
    ELSE IF ~cfg.secret \/ sig = "" THEN "ack"
    ELSE IF construct_event(body, sig) THEN "process"
    ELSE "reject"

\* The order id the handler extracts: that of a processed
\* checkout.session.completed event whose metadata.order_id is a number.
webhook_order_id(sig, body) ==
    IF webhook_outcome(sig, body) = "process" THEN event_order_id(body) ELSE None

\* The Orders table after the handler ran on the table `rows`.
webhook_orders(rows, sig, body, ok) ==
    IF is_some(webhook_order_id(sig, body))
    THEN update_order(rows, unwrap(webhook_order_id(sig, body)), paid, ok)
    ELSE rows

\* The users table after the handler ran on the table `rows`.
webhook_users(rows, sig, body, ok) ==
    IF webhook_outcome(sig, body) = "process" /\ body.type = "account.updated"
        /\ body.aid # 0
    THEN set_verified_by_account(
            rows, body.aid,
            connect_verified(as_bool_or_false(body.charges),
                             as_bool_or_false(body.payouts),
                             body.due = "empty"),
            ok)
    ELSE rows

\* A faulty variant of the answer: an event of a type the handler does not
\* know is rejected.
webhook_status_known_types(sig, body) ==
    IF webhook_outcome(sig, body) = "reject"
        \/ (webhook_outcome(sig, body) = "process"
            /\ body.type \notin {"checkout.session.completed", "account.updated"})
    THEN StatusBadRequest ELSE StatusOK

\* The status the handler answers with.
webhook_status(sig, body) ==
    IF webhook_outcome(sig, body) = "reject" THEN StatusBadRequest ELSE StatusOK

\* POST /webhooks/stripe.  ok: the UPDATE succeeded.
stripe_webhook(sig, body, ok) ==
    /\ orders' = webhook_orders(orders, sig, body, ok)
    /\ users' = webhook_users(users, sig, body, ok)
    /\ resp' = Response("webhook", Anonymous, unwrap_or(webhook_order_id(sig, body), 0),
                        webhook_status(sig, body), "", 0)
    /\ UNCHANGED <<posts, tasks, gw_log, cfg>>

\* ------------------------------------------------------------ the inputs
PostIds == 1..(Len(InitPosts) + 1)
\* The order ids of requests and events; an id is unknown while the table is
\* shorter.
OrderIds == 1..MaxOrders

\* The forms of the order lifecycle: the request of the end-to-end scenario
\* and one with no quantity.
ScenarioForms ==
    {NewOrder(q, Ymd(2025, 1, 5), Ymd(2025, 1, 10)) : q \in {0, 2}}

\* The forms that exercise the validation of rent_request, against the window 2025-01-01 ..
\* 2025-03-01 of the first post: on its edges and inside it, each way of
\* leaving it, an end before the start, texts that are blank, not a date
\* or not a day of the calendar, and quantities that are not positive.
AllForms ==
    {NewOrder(1, d[1], d[2]) : d \in
        {<<Ymd(2025, 1, 1), Ymd(2025, 3, 1)>>, <<Ymd(2025, 1, 1), Ymd(2025, 1, 1)>>,
         <<Ymd(2024, 12, 31), Ymd(2025, 3, 1)>>, <<Ymd(2025, 1, 1), Ymd(2025, 3, 2)>>,
         <<Ymd(2024, 12, 31), Ymd(2025, 3, 2)>>, <<Ymd(2025, 3, 1), Ymd(2025, 1, 1)>>,
         <<Blank, Ymd(2025, 3, 1)>>, <<Ymd(2025, 1, 1), Blank>>,
         <<Junk, Ymd(2025, 3, 1)>>, <<Ymd(2025, 1, 1), Junk>>,
         <<Ymd(2025, 2, 30), Ymd(2025, 3, 1)>>, <<Ymd(2025, 1, 1), Ymd(2025, 2, 30)>>}}
    \cup {NewOrder(q, Ymd(2025, 1, 1), Ymd(2025, 3, 1)) : q \in {0 - 1, 0, 2}}
    \cup {NewOrder(0, Junk, Ymd(2025, 3, 1))}

FlagTexts == {"true", "false", "absent"}
DueTexts == {"absent", "empty", "nonempty"}
PaymentEvents ==
    {CheckoutCompleted(m) :
        m \in {MetaAbsent, [kind |-> "text", n |-> 0]} \cup {MetaDigits(n) : n \in OrderIds}}
Events == {Malformed, OtherEvent} \cup PaymentEvents

\* The account-status events.
AccountEvents ==
    {AccountUpdated(aid, c, p, d) :
        aid \in 0..2, c \in FlagTexts, p \in FlagTexts, d \in DueTexts}

\* ------------------------------------------------------ the specifications
Init ==
    /\ orders = <<>>
    /\ posts = InitPosts
    /\ users = InitUsers
    /\ tasks = [t \in Slots |-> Idle]
    /\ gw_log = <<>>
    /\ cfg \in Configs
    /\ resp = NoResponse

\* The order lifecycle: every handler, store writes succeed; rent requests
\* name the listing with a window or no listing.
Next ==
    \/ \E user \in Callers, id \in {1, Len(InitPosts) + 1}, payload \in ScenarioForms :
            rent_request(user, id, payload, TRUE)
    \/ \E user \in Callers, order_id \in OrderIds : confirm_submit(user, order_id)
    \/ \E t \in Slots, created \in BOOLEAN : submit_stripe_checkout_session(t, created)
    \/ \E t \in Slots : confirm_submit_update(t, TRUE)
    \/ \E user \in Callers, order_id \in OrderIds : cancel_order(user, order_id, TRUE)
    \/ \E sig \in Signatures, body \in Events : stripe_webhook(sig, body, TRUE)

Spec == Init /\ [][Next]_vars

\* Rent requests alone, over every form, in one configuration (rent_request
\* reads none of it).
InitCreate == Init /\ cfg = [stripe |-> FALSE, client |-> FALSE, secret |-> FALSE]

NextCreate ==
    \E user \in Callers, id \in PostIds, payload \in AllForms :
        rent_request(user, id, payload, TRUE)

SpecCreate == InitCreate /\ [][NextCreate]_vars

\* ------------------------------------------- accounts and order pages
StatusConflict == 409
\* pw_len < 8
MinPasswordLen == 8
\* ... ORDER BY id DESC LIMIT 100
ListLimit == 100

\* Typed texts of the account forms.  EmailOf(n) is an address in lower
\* case; RawEmailOf(n) is the same address typed with capitals and spaces
\* around it; NoAtText has no '@'; BlankText is only whitespace.
RawEmailOf(n) == <<" User ", n>>
NoAtText == <<"nomail", 0>>
EmptyText == <<"", 0>>
BlankText == <<" ", 0>>

\* str::trim()
trim(text) ==
    IF text = BlankText THEN EmptyText
    ELSE IF text[1] = " User " THEN <<"User", text[2]>>
    ELSE text

\* str::to_lowercase()
to_lowercase(text) == IF text[1] = "User" THEN <<"user", text[2]>> ELSE text

is_empty(text) == text = EmptyText

\* email.contains('@')
contains_at(text) == text[1] \in {"user", "User", " User "}

\* SELECT 1 FROM users WHERE email = ?1 LIMIT 1
exists_by_email(email) == \E u \in DOMAIN users : users[u].email = email

\* The logged-in callers: the session of a registered user, or none.
Sessions == (DOMAIN users) \cup {Anonymous}

\* A faulty variant of the inserted row: the user is verified from signup.
new_user_verified(name, email) ==
    [name |-> name, email |-> email,
     stripe_connect_account_id |-> None, stripe_connect_verified |-> 1]

\* INSERT INTO users (name, email, pw_hash) VALUES (?1, ?2, ?3)
new_user(name, email) ==
    [name |-> name, email |-> email,
     stripe_connect_account_id |-> None, stripe_connect_verified |-> 0]

\* POST /signup.  The duplicate check and the INSERT are one step: email is
\* UNIQUE, so an INSERT after a check that went stale fails and the request
\* is answered 409 as if it had come second.
signup_request(name_text, email_text, pw_len) ==
    LET email == to_lowercase(trim(email_text))
        name == trim(name_text)
        outcome == IF is_empty(email) \/ is_empty(name) \/ pw_len < MinPasswordLen
                   THEN "bad_request"
                   ELSE IF exists_by_email(email) THEN "conflict"
                   ELSE "insert"
    IN  /\ outcome = "insert" => Len(users) < NumUsers
        /\ users' = IF outcome = "insert" THEN Append(users, new_user(name, email))
                    ELSE users
        /\ resp' = CASE outcome = "bad_request" ->
                            Response("signup", Anonymous, 0, StatusBadRequest, "", 0)
                     [] outcome = "conflict" ->
                            Response("signup", Anonymous, 0, StatusConflict, "", 0)
                     [] OTHER ->
                            Response("signup", Len(users) + 1, 0, StatusSeeOther, "/me", 0)
        /\ UNCHANGED <<orders, posts, tasks, gw_log, cfg>>

\* POST /me/profile.  The duplicate check and the UPDATE are one step, for
\* the reason given at signup_request.
update_profile(user, name_text, email_text) ==
    LET name == trim(name_text)
        email == to_lowercase(trim(email_text))
        outcome == IF user = Anonymous THEN "login"
                   ELSE IF is_empty(name) \/ is_empty(email) \/ ~contains_at(email)
                        THEN "bad_request"
                   ELSE IF email # users[user].email /\ exists_by_email(email)
                        THEN "conflict"
                   ELSE "update"
    IN  /\ users' = IF outcome = "update"
                    THEN [users EXCEPT ![user].name = name, ![user].email = email]
                    ELSE users
        /\ resp' = CASE outcome = "login" ->
                            Response("profile", user, 0, StatusSeeOther, "/login", 0)
                     [] outcome = "bad_request" ->
                            Response("profile", user, 0, StatusBadRequest, "", 0)
                     [] outcome = "conflict" ->
                            Response("profile", user, 0, StatusConflict, "", 0)
                     [] OTHER -> Response("profile", user, 0, StatusSeeOther, "/me", 0)
        /\ UNCHANGED <<orders, posts, tasks, gw_log, cfg>>

\* The ids, from n down to 1, of the orders that the query of my_orders
\* matches.
RECURSIVE matching_desc(_, _, _)
matching_desc(n, uid, email) ==
    IF n = 0 THEN <<>>
    ELSE IF orders[n].renter_user_id = uid \/ orders[n].renter_email = email
         THEN <<n>> \o matching_desc(n - 1, uid, email)
    ELSE matching_desc(n - 1, uid, email)

\* SELECT * FROM Orders WHERE renter_user_id=?1 OR renter_email=?2
\* ORDER BY id DESC LIMIT 100: the ids of the rows, in the order returned.
select_my_orders(uid, email) ==
    LET rows == matching_desc(Len(orders), uid, email)
    IN  IF Len(rows) > ListLimit THEN SubSeq(rows, 1, ListLimit) ELSE rows

\* GET /orders: the page lists the rows selected (`arg` holds their ids).
my_orders(user) ==
    /\ resp' = IF user = Anonymous
               THEN Response("orders", user, 0, StatusSeeOther, "/login", 0)
               ELSE Response("orders", user, 0, StatusOK, "",
                             select_my_orders(user, users[user].email))
    /\ UNCHANGED <<orders, posts, users, tasks, gw_log, cfg>>

\* What a page of one order answers to a caller: order_detail and
\* confirm_page make the same checks.
order_page_status(user, order_id) ==
    IF user = Anonymous THEN StatusSeeOther
    ELSE IF ~is_some(fetch_order(order_id)) THEN StatusNotFound
    ELSE IF ~is_renter(unwrap(fetch_order(order_id)), user) THEN StatusForbidden
    ELSE StatusOK

\* GET /orders/{id}
order_detail(user, order_id) ==
    /\ resp' = Response("detail", user, order_id, order_page_status(user, order_id),
                        IF user = Anonymous THEN "/login" ELSE "", 0)
    /\ UNCHANGED <<orders, posts, users, tasks, gw_log, cfg>>

\* GET /orders/{id}/confirm
confirm_page(user, order_id) ==
    /\ resp' = Response("confirm_page", user, order_id,
                        order_page_status(user, order_id),
                        IF user = Anonymous THEN "/login" ELSE "", 0)
    /\ UNCHANGED <<orders, posts, users, tasks, gw_log, cfg>>

\* The texts typed into the account forms.
NameTexts == {NameOf(1), BlankText}
EmailTexts ==
    {EmailOf(n) : n \in 1..(NumUsers + 1)} \cup {RawEmailOf(1), EmptyText, NoAtText}
PasswordLens == {MinPasswordLen - 1, MinPasswordLen}

\* Accounts, rent requests and order pages: one registered user at the
\* start, the others sign up.
InitReads ==
    /\ orders = <<>>
    /\ posts = InitPosts
    /\ users = SubSeq(InitUsers, 1, 1)
    /\ tasks = [t \in Slots |-> Idle]
    /\ gw_log = <<>>
    /\ cfg = [stripe |-> FALSE, client |-> FALSE, secret |-> FALSE]
    /\ resp = NoResponse

NextReads ==
    \/ \E name \in NameTexts, email \in EmailTexts, pw_len \in PasswordLens :
            signup_request(name, email, pw_len)
    \/ \E user \in Sessions, name \in NameTexts, email \in EmailTexts :
            update_profile(user, name, email)
    \/ \E user \in Sessions, payload \in ScenarioForms :
            rent_request(user, 1, payload, TRUE)
    \/ \E user \in Sessions : my_orders(user)
    \/ \E user \in Sessions, order_id \in OrderIds : order_detail(user, order_id)
    \/ \E user \in Sessions, order_id \in OrderIds : confirm_page(user, order_id)

SpecReads == InitReads /\ [][NextReads]_vars

\* Store writes that may fail: rent, confirm and cancel where every INSERT
\* and UPDATE succeeds or fails, without a webhook secret.
InitFail == Init /\ ~cfg.secret

NextFail ==
    \/ \E user \in Callers, payload \in ScenarioForms, insert_ok \in BOOLEAN :
            rent_request(user, 1, payload, insert_ok)
    \/ \E user \in Callers, order_id \in OrderIds : confirm_submit(user, order_id)
    \/ \E t \in Slots, created \in BOOLEAN : submit_stripe_checkout_session(t, created)
    \/ \E t \in Slots, ok \in BOOLEAN : confirm_submit_update(t, ok)
    \/ \E user \in Callers, order_id \in OrderIds, ok \in BOOLEAN :
            cancel_order(user, order_id, ok)

SpecFail == InitFail /\ [][NextFail]_vars

\* The amounts of confirm: a renter's requests on one listing, over a few
\* prices, quantities and ranges of its window, and their confirms in a
\* build with the gateway client.
InitAmount ==
    /\ orders = <<>>
    /\ \E price \in {0, 1, 25} : posts = <<[InitPosts[1] EXCEPT !.price = price]>>
    /\ users = InitUsers
    /\ tasks = [t \in Slots |-> Idle]
    /\ gw_log = <<>>
    /\ cfg = [stripe |-> TRUE, client |-> TRUE, secret |-> FALSE]
    /\ resp = NoResponse

NextAmount ==
    \/ \E q \in {1, 3},
          d \in {<<Ymd(2025, 1, 1), Ymd(2025, 1, 1)>>, <<Ymd(2025, 1, 5), Ymd(2025, 1, 10)>>,
                 <<Ymd(2025, 1, 31), Ymd(2025, 3, 1)>>, <<Ymd(2025, 1, 1), Ymd(2025, 3, 1)>>} :
            rent_request(2, 1, NewOrder(q, d[1], d[2]), TRUE)
    \/ \E order_id \in OrderIds : confirm_submit(2, order_id)
    \/ \E t \in Slots, created \in BOOLEAN : submit_stripe_checkout_session(t, created)
    \/ \E t \in Slots : confirm_submit_update(t, TRUE)

SpecAmount == InitAmount /\ [][NextAmount]_vars

\* ------------------------------------------ seller accounts and listings
MaxPosts == 3
MaxAccountCalls == 4

\* NaiveDate::format("%Y-%m-%d").to_string(): the text of the day with
\* number n.
RECURSIVE year_of(_, _)
year_of(n, y) == IF DayNumber(y + 1, 1, 1) <= n THEN year_of(n, y + 1) ELSE y

RECURSIVE month_of(_, _, _)
month_of(n, y, m) ==
    IF m < 12 /\ DayNumber(y, m + 1, 1) <= n THEN month_of(n, y, m + 1) ELSE m

format(n) ==
    LET y == year_of(n, (n \div 366) + 1)
        m == month_of(n, y, 1)
    IN  Ymd(y, m, n - DayNumber(y, m, 1) + 1)

\* A faulty variant of the gate: every logged-in user passes.
is_connect_verified_any_user(user_id) == user_id \in DOMAIN users

\* SELECT stripe_connect_verified FROM users WHERE id=?1 ... unwrap_or(0) == 1
is_connect_verified(user_id) ==
    user_id \in DOMAIN users /\ users[user_id].stripe_connect_verified = 1

\* The form of a new post.
NewPost(title, price, spaces_available, available_date, end_date) ==
    [title |-> title, price |-> price, spaces_available |-> spaces_available,
     available_date |-> available_date, end_date |-> end_date]

\* start_date + chrono::Days::new(30)
DefaultStayDays == 30

\* "Validate and normalize dates": the end date stored for a form whose
\* start date parsed as start_date.
normalized_end_date(payload, start_date) ==
    LET parsed == unwrap_or(parse_from_str(payload.end_date), start_date + DefaultStayDays)
    IN  IF parsed < start_date THEN start_date + DefaultStayDays ELSE parsed

\* The row new_post_request inserts.
inserted_post(user, payload) ==
    LET start_date == unwrap(parse_from_str(payload.available_date))
    IN  [title |-> payload.title,
         user_id |-> user,
         price |-> payload.price,
         spaces_available |-> payload.spaces_available,
         available_date |-> format(start_date),
         end_date |-> format(normalized_end_date(payload, start_date)),
         visible |-> 1]

\* POST /new_post up to the INSERT: the login and the verified gate.  The
\* handler awaits between the SELECT of the flag and the INSERT.
new_post_request(user, payload) ==
    LET reply(r) == /\ resp' = r
                    /\ UNCHANGED <<orders, posts, users, tasks, gw_log, cfg>>
    IN
    IF user = Anonymous THEN reply(LoginRedirect("new_post", user, 0))
    ELSE IF ~is_connect_verified(user)
        THEN reply(Response("new_post", user, 0, StatusSeeOther, "/me", 0))
    ELSE
        /\ FreeSlots # {}
        /\ tasks' = [tasks EXCEPT ![FirstFree] =
                        Task("new_post", "insert", user, 0, Some(payload), None)]
        /\ UNCHANGED <<orders, posts, users, gw_log, cfg, resp>>

\* The end of new_post_request: the date validation, the INSERT and the
\* response.  insert_ok: the INSERT succeeded.
new_post_insert(t, insert_ok) ==
    /\ tasks[t].op = "new_post" /\ tasks[t].pc = "insert"
    /\ LET user == tasks[t].user
           payload == unwrap(tasks[t].row)
       IN  IF ~is_some(parse_from_str(payload.available_date))
           THEN /\ posts' = posts
                /\ resp' = Response("new_post", user, 0, StatusBadRequest, "", 0)
           ELSE IF ~insert_ok
           THEN /\ posts' = posts
                /\ resp' = Response("new_post", user, 0, StatusInternalServerError, "", 0)
           ELSE /\ Len(posts) < MaxPosts
                /\ posts' = Append(posts, inserted_post(user, payload))
                /\ resp' = Response("new_post", user, Len(posts) + 1, StatusSeeOther,
                                    "/posts/{}", Len(posts) + 1)
    /\ tasks' = [tasks EXCEPT ![t] = Idle]
    /\ UNCHANGED <<orders, users, gw_log, cfg>>

\* SELECT * FROM Posts WHERE user_id = ?1 ORDER BY id DESC, as the cards the
\* account page shows for the rows among the first n: the post a card
\* links to, its title and whether it carries the "(hidden)" badge
\* (p.visible == 0).
RECURSIVE get_posts_by_user(_, _)
get_posts_by_user(n, user_id) ==
    IF n = 0 THEN <<>>
    ELSE IF posts[n].user_id = user_id
         THEN <<[id |-> n, title |-> posts[n].title, hidden |-> posts[n].visible = 0]>>
              \o get_posts_by_user(n - 1, user_id)
         ELSE get_posts_by_user(n - 1, user_id)

StatusUnauthorized == 401

\* GET /me: the cards under "My Posts".
me_page(user) ==
    /\ resp' = IF user = Anonymous
               THEN Response("me", user, 0, StatusUnauthorized, "", <<>>)
               ELSE Response("me", user, 0, StatusOK, "", get_posts_by_user(Len(posts), user))
    /\ UNCHANGED <<orders, posts, users, tasks, gw_log, cfg>>

\* The requests of the account handlers to the gateway.
account_request(op, user, aid) == [op |-> op, user |-> user, aid |-> aid]

RECURSIVE account_calls(_)
account_calls(n) ==
    IF n = 0 THEN 0
    ELSE account_calls(n - 1) + (IF gw_log[n].op \in {"account.create", "account_link.create"} THEN 1 ELSE 0)

\* acct.id of a new account: an id the gateway has not given out, among
\* the accounts it has created and those linked in the store.
new_account_id ==
    LET created_accounts ==
            {gw_log[i].aid :
                i \in {j \in 1..Len(gw_log) : gw_log[j].op = "account.create"}}
        linked_accounts ==
            {unwrap(users[u].stripe_connect_account_id) :
                u \in {v \in DOMAIN users : is_some(users[v].stripe_connect_account_id)}}
    IN  1 + Cardinality({aid \in created_accounts \cup linked_accounts : aid > 0})

\* UPDATE users SET stripe_connect_account_id=?1 WHERE id=?2
set_account(rows, user_id, aid, ok) ==
    IF ok THEN [rows EXCEPT ![user_id].stripe_connect_account_id = Some(aid)] ELSE rows

\* A faulty variant of the lookup of the linked account: none is found.
linked_account_none(user_id) == None

\* SELECT stripe_connect_account_id FROM users WHERE id=?1 ... unwrap_or(None)
linked_account(user_id) == users[user_id].stripe_connect_account_id

\* service::create_or_get_connect_account_and_link as GET /me/verify calls
\* it.  created: Account::create succeeded; linked: AccountLink::create
\* succeeded; ok: the UPDATE succeeded.  The result is Some(url) when the
\* answer is a redirect to the onboarding link; None and Err are both
\* answered with the account page.  An account is looked up and created for
\* the caller's own row; the steps of two calls for one user are not
\* interleaved here.
connect_verify(user, created, linked, ok) ==
    LET configured == cfg.stripe /\ cfg.client
        current == linked_account(user)
        aid == IF is_some(current) THEN unwrap(current) ELSE new_account_id
        create_call == IF is_some(current) THEN <<>>
                       ELSE <<account_request("account.create", user,
                                              IF created THEN aid ELSE 0)>>
        link_call == IF is_some(current) \/ created
                     THEN <<account_request("account_link.create", user, aid)>>
                     ELSE <<>>
        got_link == (is_some(current) \/ created) /\ linked
    IN
    IF user = Anonymous
    THEN /\ resp' = LoginRedirect("verify", user, 0)
         /\ UNCHANGED <<orders, posts, users, tasks, gw_log, cfg>>
    ELSE IF ~configured
    THEN /\ resp' = Response("verify", user, 0, StatusOK, "", 0)
         /\ UNCHANGED <<orders, posts, users, tasks, gw_log, cfg>>
    ELSE /\ account_calls(Len(gw_log)) + Len(create_call) + Len(link_call) <= MaxAccountCalls
         /\ gw_log' = gw_log \o create_call \o link_call
         /\ users' = IF ~is_some(current) /\ created
                     THEN set_account(users, user, aid, ok)
                     ELSE users
         /\ resp' = IF got_link
                    THEN Response("verify", user, 0, StatusSeeOther, "onboarding", aid)
                    ELSE Response("verify", user, 0, StatusOK, "", 0)
         /\ UNCHANGED <<orders, posts, tasks, cfg>>

\* acct.charges_enabled.unwrap_or(false)
unwrap_or_false(v) == v = "true"

\* A faulty variant of the flag of a refresh: an empty list of outstanding
\* requirements does not count.
refresh_verified_without_due(charges, payouts, due) ==
    unwrap_or_false(charges) /\ unwrap_or_false(payouts)

\* The flag refresh_connect_status computes from the retrieved account.
refresh_verified(charges, payouts, due) ==
    connect_verified(unwrap_or_false(charges), unwrap_or_false(payouts), due = "empty")

\* UPDATE users SET stripe_connect_verified=?1 WHERE id=?2
set_verified_by_id(rows, user_id, verified, ok) ==
    IF ok
    THEN [rows EXCEPT ![user_id].stripe_connect_verified = IF verified THEN 1 ELSE 0]
    ELSE rows

\* service::refresh_connect_status on the table `rows`.  retrieved:
\* Account::retrieve succeeded; charges, payouts, due: the account it
\* returned.
refresh_connect_status(rows, user_id, retrieved, charges, payouts, due, ok) ==
    IF cfg.stripe /\ cfg.client /\ is_some(rows[user_id].stripe_connect_account_id)
        /\ retrieved
    THEN set_verified_by_id(rows, user_id, refresh_verified(charges, payouts, due), ok)
    ELSE rows

\* GET /me/refresh_connect
refresh_connect(user, retrieved, charges, payouts, due, ok) ==
    /\ users' = IF user = Anonymous THEN users
                ELSE refresh_connect_status(users, user, retrieved, charges, payouts, due, ok)
    /\ resp' = IF user = Anonymous THEN LoginRedirect("refresh", user, 0)
               ELSE Response("refresh", user, 0, StatusSeeOther, "/me", 0)
    /\ UNCHANGED <<orders, posts, tasks, gw_log, cfg>>

\* The forms of a new post: with and without an end date, with an end
\* before the start, and with a start that is no date.
PostForms ==
    {NewPost(Title(3), 100, 10, d[1], d[2]) :
        d \in {<<Ymd(2025, 1, 1), Ymd(2025, 3, 1)>>, <<Ymd(2025, 1, 1), Blank>>,
               <<Ymd(2025, 2, 15), Ymd(2025, 1, 1)>>, <<Junk, Ymd(2025, 3, 1)>>}}

\* Sellers and orders: signup, the account handlers with a gateway that
\* answers, the account and payment events of the webhook, and the lifecycle
\* of one order.
\* Three of the accounts the gateway can report: enabled for charges and
\* payouts, not enabled with requirements outstanding, and with nothing
\* reported but an empty list of requirements.
SellerData ==
    {<<"true", "true", "absent">>, <<"false", "true", "nonempty">>,
     <<"absent", "absent", "empty">>}
SellerEvents ==
    {AccountUpdated(aid, a[1], a[2], a[3]) : aid \in 0..2, a \in SellerData}
        \cup {CheckoutCompleted(MetaDigits(1)), OtherEvent}
ScenarioRequest == CHOOSE payload \in ScenarioForms : payload.quantity > 0

\* One registered user, who has linked no account and whose two posts were
\* inserted before the verified column was added (users.rs:143).
InitSeller ==
    /\ orders = <<>>
    /\ posts = InitPosts
    /\ users = <<new_user(NameOf(1), EmailOf(1))>>
    /\ tasks = [t \in Slots |-> Idle]
    /\ gw_log = <<>>
    /\ cfg \in {c \in Configs : c.secret = c.stripe}
    /\ resp = NoResponse

NextSeller ==
    \/ \E email \in {EmailOf(1), EmailOf(2)} :
            signup_request(NameOf(2), email, MinPasswordLen)
    \/ \E user \in Sessions : connect_verify(user, TRUE, TRUE, TRUE)
    \/ \E user \in Sessions, retrieved \in BOOLEAN, a \in SellerData :
            refresh_connect(user, retrieved, a[1], a[2], a[3], TRUE)
    \/ \E body \in SellerEvents : stripe_webhook("valid", body, TRUE)
    \/ \E user \in Sessions :
            Len(orders) < 1 /\ rent_request(user, 1, ScenarioRequest, TRUE)
    \/ \E user \in Sessions : confirm_submit(user, 1)
    \/ \E t \in Slots, created \in BOOLEAN : submit_stripe_checkout_session(t, created)
    \/ \E t \in Slots : confirm_submit_update(t, TRUE)
    \/ \E user \in Sessions : cancel_order(user, 1, TRUE)

SpecSeller == InitSeller /\ [][NextSeller]_vars

\* Sellers and their listings: signup, the account handlers, the account
\* events of the webhook, the listing form and the account page.
NextListing ==
    \/ \E email \in {EmailOf(1), EmailOf(2)} :
            signup_request(NameOf(2), email, MinPasswordLen)
    \/ \E user \in Sessions, created \in BOOLEAN, linked \in BOOLEAN :
            connect_verify(user, created, linked, TRUE)
    \/ \E user \in Sessions, retrieved \in BOOLEAN, a \in SellerData :
            refresh_connect(user, retrieved, a[1], a[2], a[3], TRUE)
    \/ \E body \in SellerEvents : stripe_webhook("valid", body, TRUE)
    \/ \E user \in Sessions, payload \in PostForms : new_post_request(user, payload)
    \/ \E t \in Slots : new_post_insert(t, TRUE)
    \/ \E user \in Sessions : me_page(user)

SpecListing == InitSeller /\ [][NextListing]_vars

\* The verified flag over every account the gateway can report: signup, the
\* account handlers, the account events of the webhook and one rent request.
NextVerify ==
    \/ signup_request(NameOf(2), EmailOf(2), MinPasswordLen)
    \/ \E user \in Sessions, created \in BOOLEAN, linked \in BOOLEAN :
            connect_verify(user, created, linked, TRUE)
    \/ \E user \in Sessions, retrieved \in BOOLEAN,
          charges \in FlagTexts, payouts \in FlagTexts, due \in DueTexts :
            refresh_connect(user, retrieved, charges, payouts, due, TRUE)
    \/ \E body \in AccountEvents : stripe_webhook("valid", body, TRUE)
    \/ \E user \in Sessions :
            Len(orders) < 1 /\ rent_request(user, 1, ScenarioRequest, TRUE)

SpecVerify == InitSeller /\ [][NextVerify]_vars

\* ------------------------------------------------- listing visibility
\* A faulty variant of the toggle: the post is hidden whatever it was.
toggled_hiding(visible) == 0

\* CASE visible WHEN 1 THEN 0 ELSE 1 END
toggled(visible) == IF visible = 1 THEN 0 ELSE 1

\* UPDATE Posts SET visible = ... WHERE id=? AND user_id=? on the table
\* `rows`: the table after the statement.  ok: the statement succeeded.
update_visible(rows, id, uid, ok) ==
    IF ok /\ id \in 1..Len(rows) /\ rows[id].user_id = uid
    THEN [rows EXCEPT ![id].visible = toggled(rows[id].visible)]
    ELSE rows

\* POST /posts/{id}/toggle_visibility.  current_uid is the id of the
\* session's user, or -1 (unwrap_or(-1)) without a session.
toggle_visibility(user, id, ok) ==
    /\ posts' = update_visible(posts, id, IF user = Anonymous THEN 0 - 1 ELSE user, ok)
    /\ resp' = IF ok THEN Response("toggle", user, id, StatusSeeOther, "/me", 0)
               ELSE Response("toggle", user, id, StatusForbidden, "", 0)
    /\ UNCHANGED <<orders, users, tasks, gw_log, cfg>>

\* SELECT * FROM Posts WHERE visible = 1 [AND price <= ?] ORDER BY id ASC,
\* as the ids of the rows among the first n.  filter: the query of the
\* public list, a highest price or none.
RECURSIVE get_posts_filtered(_, _)
get_posts_filtered(n, filter) ==
    IF n = 0 THEN <<>>
    ELSE IF /\ posts[n].visible = 1
            /\ is_some(filter.max_price) => posts[n].price <= unwrap(filter.max_price)
         THEN Append(get_posts_filtered(n - 1, filter), n)
         ELSE get_posts_filtered(n - 1, filter)

\* GET /posts: the public list, for any caller.
post_list(user, filter) ==
    /\ resp' = Response("posts", user, 0, StatusOK, "", get_posts_filtered(Len(posts), filter))
    /\ UNCHANGED <<orders, posts, users, tasks, gw_log, cfg>>

VisibilityFilters == {[max_price |-> None], [max_price |-> Some(25)]}

\* The owners of listings: user 1, and user 2 after linking account 2 and
\* being verified.
InitVisibility ==
    /\ orders = <<>>
    /\ posts = InitPosts
    /\ users = [InitUsers EXCEPT ![2].stripe_connect_account_id = Some(2),
                                 ![2].stripe_connect_verified = 1]
    /\ tasks = [t \in Slots |-> Idle]
    /\ gw_log = <<>>
    /\ cfg = [stripe |-> FALSE, client |-> FALSE, secret |-> FALSE]
    /\ resp = NoResponse

\* Listings and who sees them: the listing form, the toggle, the public
\* list and the account page.
NextVisibility ==
    \/ \E user \in Callers :
            new_post_request(user, NewPost(Title(3), 100, 10, Ymd(2025, 1, 1), Blank))
    \/ \E t \in Slots : new_post_insert(t, TRUE)
    \/ \E user \in Callers, id \in 1..MaxPosts, ok \in BOOLEAN :
            toggle_visibility(user, id, ok)
    \/ \E user \in Callers, filter \in VisibilityFilters : post_list(user, filter)
    \/ \E user \in Callers : me_page(user)

SpecVisibility == InitVisibility /\ [][NextVisibility]_vars

\* ------------------------------------------------------- unique emails
\* A faulty variant of the table: email without the UNIQUE constraint.
email_taken_unconstrained(rows, id, email) == FALSE

\* "email TEXT NOT NULL UNIQUE": TRUE when writing `email` to the row `id`
\* (0 for a new row) of `rows` breaks the constraint, and the statement
\* fails.
email_taken(rows, id, email) ==
    \E u \in DOMAIN rows : u # id /\ rows[u].email = email

\* POST /signup up to the INSERT: the validation and the duplicate check.
signup_check(name_text, email_text, pw_len) ==
    LET email == to_lowercase(trim(email_text))
        name == trim(name_text)
    IN  IF is_empty(email) \/ is_empty(name) \/ pw_len < MinPasswordLen
        THEN /\ resp' = Response("signup", Anonymous, 0, StatusBadRequest, "", 0)
             /\ UNCHANGED <<orders, posts, users, tasks, gw_log, cfg>>
        ELSE IF exists_by_email(email)
        THEN /\ resp' = Response("signup", Anonymous, 0, StatusConflict, "", 0)
             /\ UNCHANGED <<orders, posts, users, tasks, gw_log, cfg>>
        ELSE /\ FreeSlots # {}
             /\ tasks' = [tasks EXCEPT ![FirstFree] =
                            Task("signup", "insert", Anonymous, 0,
                                 Some([name |-> name, email |-> email]), None)]
             /\ UNCHANGED <<orders, posts, users, gw_log, cfg, resp>>

\* The end of signup_request: the INSERT, which fails when the email was
\* taken after the duplicate lookup (Err -> 409), and the response.
signup_insert(t) ==
    /\ tasks[t].op = "signup" /\ tasks[t].pc = "insert"
    /\ LET row == unwrap(tasks[t].row) IN
        IF email_taken(users, 0, row.email)
        THEN /\ users' = users
             /\ resp' = Response("signup", Anonymous, 0, StatusConflict, "", 0)
        ELSE /\ Len(users) < NumUsers
             /\ users' = Append(users, new_user(row.name, row.email))
             /\ resp' = Response("signup", Len(users) + 1, 0, StatusSeeOther, "/me", 0)
    /\ tasks' = [tasks EXCEPT ![t] = Idle]
    /\ UNCHANGED <<orders, posts, gw_log, cfg>>

\* POST /me/profile up to the UPDATE: the login, the validation and the
\* duplicate check against the email of the session's user.
profile_check(user, name_text, email_text) ==
    LET name == trim(name_text)
        email == to_lowercase(trim(email_text))
        reply(r) == /\ resp' = r
                    /\ UNCHANGED <<orders, posts, users, tasks, gw_log, cfg>>
    IN  IF user = Anonymous
        THEN reply(Response("profile", user, 0, StatusSeeOther, "/login", 0))
        ELSE IF is_empty(name) \/ is_empty(email) \/ ~contains_at(email)
        THEN reply(Response("profile", user, 0, StatusBadRequest, "", 0))
        ELSE IF email # users[user].email /\ exists_by_email(email)
        THEN reply(Response("profile", user, 0, StatusConflict, "", 0))
        ELSE /\ FreeSlots # {}
             /\ tasks' = [tasks EXCEPT ![FirstFree] =
                            Task("profile", "update", user, 0,
                                 Some([name |-> name, email |-> email]), None)]
             /\ UNCHANGED <<orders, posts, users, gw_log, cfg, resp>>

\* The end of update_profile: UPDATE users SET name=?1, email=?2 WHERE
\* id=?3, whose failure is discarded (`let _ =`), and the redirect.
profile_update(t) ==
    /\ tasks[t].op = "profile" /\ tasks[t].pc = "update"
    /\ LET row == unwrap(tasks[t].row)
           user == tasks[t].user
       IN  /\ users' = IF email_taken(users, user, row.email) THEN users
                       ELSE [users EXCEPT ![user].name = row.name,
                                          ![user].email = row.email]
           /\ resp' = Response("profile", user, 0, StatusSeeOther, "/me", 0)
    /\ tasks' = [tasks EXCEPT ![t] = Idle]
    /\ UNCHANGED <<orders, posts, gw_log, cfg>>

\* The emails typed into the account forms when emails collide: two
\* addresses, one of them also typed with capitals and spaces, and a text
\* that is no address.
CollidingEmails == {EmailOf(1), EmailOf(2), RawEmailOf(2), NoAtText}

\* Accounts whose requests interleave: a signup or a profile update
\* suspended between its duplicate check and its statement, while other
\* signups and profile updates run from check to statement.
NextEmails ==
    \/ \E name \in {NameOf(2), BlankText}, email \in CollidingEmails, pw_len \in PasswordLens :
            signup_check(name, email, pw_len)
    \/ \E t \in Slots : signup_insert(t)
    \/ \E user \in Sessions, name \in {NameOf(2), BlankText}, email \in CollidingEmails :
            profile_check(user, name, email)
    \/ \E t \in Slots : profile_update(t)
    \/ \E email \in CollidingEmails : signup_request(NameOf(2), email, MinPasswordLen)
    \/ \E user \in Sessions, email \in CollidingEmails :
            update_profile(user, NameOf(2), email)

SpecEmails == InitReads /\ [][NextEmails]_vars

\* ------------------------------------------- concurrent GET /me/verify
\* GET /me/verify up to the SELECT of the linked account: the login, the
\* configured client and the account id found, which the handler carries
\* to its next statement.
connect_verify_lookup(user) ==
    IF user = Anonymous
    THEN /\ resp' = LoginRedirect("verify", user, 0)
         /\ UNCHANGED <<orders, posts, users, tasks, gw_log, cfg>>
    ELSE IF ~(cfg.stripe /\ cfg.client)
    THEN /\ resp' = Response("verify", user, 0, StatusOK, "", 0)
         /\ UNCHANGED <<orders, posts, users, tasks, gw_log, cfg>>
    ELSE /\ FreeSlots # {}
         /\ tasks' = [tasks EXCEPT ![FirstFree] =
                        Task("verify",
                             IF is_some(linked_account(user)) THEN "link" ELSE "create",
                             user, 0, linked_account(user), None)]
         /\ UNCHANGED <<orders, posts, users, gw_log, cfg, resp>>

\* Account::create for a handler that found no account, and the UPDATE that
\* stores the new id.  created: the gateway created the account; ok: the
\* UPDATE succeeded.
connect_verify_create(t, created, ok) ==
    /\ tasks[t].op = "verify" /\ tasks[t].pc = "create"
    /\ account_calls(Len(gw_log)) < MaxAccountCalls
    /\ LET user == tasks[t].user
           aid == new_account_id
       IN  IF created
           THEN /\ gw_log' = Append(gw_log, account_request("account.create", user, aid))
                /\ users' = set_account(users, user, aid, ok)
                /\ tasks' = [tasks EXCEPT ![t].pc = "link", ![t].row = Some(aid)]
                /\ resp' = resp
           ELSE /\ gw_log' = Append(gw_log, account_request("account.create", user, 0))
                /\ users' = users
                /\ tasks' = [tasks EXCEPT ![t] = Idle]
                /\ resp' = Response("verify", user, 0, StatusOK, "", 0)
    /\ UNCHANGED <<orders, posts, cfg>>

\* AccountLink::create for the account the handler holds, and the
\* response.  linked: the gateway returned a link.
connect_verify_link(t, linked) ==
    /\ tasks[t].op = "verify" /\ tasks[t].pc = "link"
    /\ account_calls(Len(gw_log)) < MaxAccountCalls
    /\ LET user == tasks[t].user
           aid == unwrap(tasks[t].row)
       IN  /\ gw_log' = Append(gw_log, account_request("account_link.create", user, aid))
           /\ resp' = IF linked
                      THEN Response("verify", user, 0, StatusSeeOther, "onboarding", aid)
                      ELSE Response("verify", user, 0, StatusOK, "", 0)
    /\ tasks' = [tasks EXCEPT ![t] = Idle]
    /\ UNCHANGED <<orders, posts, users, cfg>>

\* Two requests to GET /me/verify at once: one suspended at each of its
\* calls, the other running from its SELECT to its response; and the
\* signup of a second user.
InitConcurrentVerify == InitSeller /\ cfg.stripe /\ cfg.client

NextConcurrentVerify ==
    \/ signup_request(NameOf(2), EmailOf(2), MinPasswordLen)
    \/ \E user \in Sessions : connect_verify_lookup(user)
    \/ \E t \in Slots, created \in BOOLEAN : connect_verify_create(t, created, TRUE)
    \/ \E t \in Slots, linked \in BOOLEAN : connect_verify_link(t, linked)
    \/ \E user \in Sessions, created \in BOOLEAN, linked \in BOOLEAN :
            connect_verify(user, created, linked, TRUE)

SpecConcurrentVerify == InitConcurrentVerify /\ [][NextConcurrentVerify]_vars

\* ------------------------------------------ User::admin_backfill_customers
MaxBackfillUsers == 4

\* params.limit.unwrap_or(200).min(1000)
DefaultLimit == 200
MaxLimit == 1000

effective_limit(limit) ==
    IF unwrap_or(limit, DefaultLimit) <= MaxLimit
    THEN unwrap_or(limit, DefaultLimit) ELSE MaxLimit

\* A customer id given before the backfill; <<"cus", u>> is the one the
\* gateway creates for user u.
LegacyCustomer == <<"cus", 0>>

\* SELECT id, name, email FROM users WHERE (stripe_customer_id IS NULL OR
\* stripe_customer_id = '') AND id > ?1 ORDER BY id ASC, as the ids among
\* the first n rows.
RECURSIVE lacking_after(_, _)
lacking_after(n, cursor) ==
    IF n = 0 THEN <<>>
    ELSE IF users[n].stripe_customer_id = None /\ n > cursor
         THEN Append(lacking_after(n - 1, cursor), n)
         ELSE lacking_after(n - 1, cursor)

\* ... LIMIT ?2
select_backfill(cursor, limit) ==
    LET rows == lacking_after(Len(users), cursor)
    IN  SubSeq(rows, 1, IF limit <= Len(rows) THEN limit ELSE Len(rows))

\* last_id = (*id).max(last_id) over the rows
RECURSIVE last_id_of(_, _, _)
last_id_of(rows, n, cursor) ==
    IF n = 0 THEN cursor ELSE max(rows[n], last_id_of(rows, n - 1, cursor))

\* service::ensure_customer_for_user for the rows of a page, in a build
\* with a gateway client: one request of stripe_create_customer for each
\* row (each row lacks a customer id), as logged by the gateway with
\* whether it created the customer.
RECURSIVE customer_requests(_, _, _)
customer_requests(rows, n, succeed) ==
    IF n = 0 THEN <<>>
    ELSE Append(customer_requests(rows, n - 1, succeed),
                [op |-> "customer.create", user |-> rows[n],
                 created |-> rows[n] \in succeed])

\* UPDATE users SET stripe_customer_id=?1 WHERE id=?2, for each row whose
\* customer the gateway created.
set_customers(table, created) ==
    [u \in DOMAIN table |->
        IF u \in created
        THEN [table[u] EXCEPT !.stripe_customer_id = Some(<<"cus", u>>)]
        ELSE table[u]]

\* POST /admin/stripe/backfill-customers?limit=&cursor=.  is_admin:
\* ADMIN_EMAIL is set and is the email of the caller; succeed: the users
\* for whom the gateway creates a customer when asked.  The handler reads
\* its page once and then works through it; no other handler of this
\* specification writes users, so the page is worked through in one step.
\* The answer is the JSON body, kept with the limit of the request.
admin_backfill_customers(user, is_admin, limit, cursor, succeed) ==
    IF user = Anonymous
    THEN /\ resp' = Response("backfill", user, 0, StatusSeeOther, "/login", 0)
         /\ UNCHANGED <<orders, posts, users, tasks, gw_log, cfg>>
    ELSE IF ~is_admin
    THEN /\ resp' = Response("backfill", user, 0, StatusForbidden, "", 0)
         /\ UNCHANGED <<orders, posts, users, tasks, gw_log, cfg>>
    ELSE
        LET rows == select_backfill(cursor, effective_limit(limit))
            ids == {rows[i] : i \in 1..Len(rows)}
            configured == cfg.stripe /\ cfg.client
            created == IF configured THEN ids \cap succeed ELSE {}
            errors == IF configured THEN ids \ succeed ELSE {}
            done == Len(rows) < effective_limit(limit)
            next_cursor == IF done THEN None
                           ELSE Some(last_id_of(rows, Len(rows), cursor))
        IN  /\ gw_log' = IF configured
                         THEN gw_log \o customer_requests(rows, Len(rows), succeed)
                         ELSE gw_log
            /\ users' = set_customers(users, created)
            /\ resp' = Response("backfill", user, 0, StatusOK, "",
                                [limit |-> limit, processed |-> Len(rows),
                                 created |-> Cardinality(created), errors |-> errors,
                                 done |-> done, next_cursor |-> next_cursor])
            /\ UNCHANGED <<orders, posts, tasks, cfg>>

\* The last answer is a page of a backfill that is not finished, or its
\* last page.
backfill_running == resp.op = "backfill" /\ resp.status = StatusOK /\ ~resp.arg.done
backfill_done == resp.op = "backfill" /\ resp.status = StatusOK /\ resp.arg.done

BackfillIds == 1..MaxBackfillUsers

\* The users rows carry their stripe_customer_id column, which the other
\* sections leave out.
InitBackfill ==
    /\ orders = <<>>
    /\ posts = InitPosts
    /\ \E lacking \in SUBSET BackfillIds :
        users = [u \in BackfillIds |->
                    LET row == new_user(NameOf(u), EmailOf(u))
                    IN  [f \in DOMAIN row \cup {"stripe_customer_id"} |->
                            IF f # "stripe_customer_id" THEN row[f]
                            ELSE IF u \in lacking THEN None ELSE Some(LegacyCustomer)]]
    /\ tasks = [t \in Slots |-> Idle]
    /\ gw_log = <<>>
    /\ cfg \in {c \in Configs : ~c.secret}
    /\ resp = NoResponse

\* One backfill by the administrator (user 1): the first call starts at
\* cursor 0 with no limit or a small one; each further call passes the
\* next_cursor of the last answer and the same limit, until an answer says
\* done.  Before it, calls by others are refused.
NextBackfill ==
    \/ \E limit \in {None, Some(0), Some(1), Some(2)}, succeed \in SUBSET BackfillIds :
            /\ ~backfill_running /\ ~backfill_done
            /\ admin_backfill_customers(1, TRUE, limit, 0, succeed)
    \/ \E succeed \in SUBSET BackfillIds :
            /\ backfill_running
            /\ admin_backfill_customers(1, TRUE, resp.arg.limit,
                                        unwrap(resp.arg.next_cursor), succeed)
    \/ \E user \in Callers :
            /\ resp = NoResponse
            /\ admin_backfill_customers(user, FALSE, None, 0, {})

\* The administrator keeps calling while a call changes anything.
SpecBackfill == InitBackfill /\ [][NextBackfill]_vars /\ WF_vars(NextBackfill)

\* ================================================================ claims
ExistingOrders == 1..Len(orders)
Terminal == {"paid", "cancelled"}

\* C1: Paid is terminal.  Once an order's status is paid, no step of any
\* handler (cancel, confirm, webhook, by anyone) changes that status; a
\* cancel by its renter leaves it paid.
C1_PaidIsTerminal ==
    [][\A o \in ExistingOrders :
        orders[o].status = "paid" => orders'[o].status = "paid"]_vars

\* C2: Cancelled is terminal.  Once an order's status is cancelled, neither a
\* confirm by its renter nor a verified payment event for its id changes that
\* status.
C2_CancelledIsTerminal ==
    [][\A o \in ExistingOrders :
        orders[o].status = "cancelled" => orders'[o].status = "cancelled"]_vars

\* C3: Race of cancel and payment.  Of the UPDATE of a renter's cancel and the
\* UPDATE of a verified payment event for the same order, the one that comes
\* second affects no row: a cancel that finds the order paid, and a payment
\* event that finds it cancelled, leave the table as it is.
C3_RaceLoserAffectsNoRow ==
    [][\A o \in ExistingOrders :
        /\ \A user \in Users :
              cancel_order(user, o, TRUE) /\ orders[o].status = "paid"
                  => orders' = orders /\ resp'.status = StatusSeeOther
        /\ \A sig \in Signatures, body \in Events :
              /\ stripe_webhook(sig, body, TRUE)
              /\ webhook_order_id(sig, body) = Some(o)
              /\ orders[o].status = "cancelled"
              => orders' = orders]_vars

\* C4: A confirm that read its order before the order was cancelled or paid
\* (the change came while the gateway call was in flight) writes nothing:
\* the order keeps the status of the intervening operation.
C4_LateConfirmIsDiscarded ==
    [][\A t \in Slots :
        /\ confirm_submit_update(t, TRUE)
        /\ unwrap(tasks[t].row).status \notin Terminal
        /\ orders[tasks[t].id].status \in Terminal
        => orders'[tasks[t].id].status = orders[tasks[t].id].status]_vars

\* C5: Every change of an order's status is one of the edges
\* pending_review -> submitted, submitted -> paid, pending_review ->
\* cancelled, submitted -> cancelled.
StatusEdges ==
    {<<"pending_review", "submitted">>, <<"submitted", "paid">>,
     <<"pending_review", "cancelled">>, <<"submitted", "cancelled">>}

C5_OnlyLegalEdges ==
    [][\A o \in ExistingOrders :
        orders'[o].status # orders[o].status
            => <<orders[o].status, orders'[o].status>> \in StatusEdges]_vars

\* C6: Ownership.  For every existing order and every user who is logged in
\* and is not its renter, confirm and cancel answer 403, start no task (so no
\* gateway call follows) and change neither the Orders table nor the gateway
\* log; and every confirm that reaches the gateway or the UPDATE is its
\* renter's.  (Every confirm and cancel answers its caller or starts a task;
\* that is stated first, so that the handlers are evaluated on those steps
\* only.)
C6_Ownership ==
    [][/\ \A user \in Users, order_id \in ExistingOrders :
            /\ (resp'.user = user /\ resp'.id = order_id) \/ tasks' # tasks
            /\ ~is_renter(orders[order_id], user)
            /\ confirm_submit(user, order_id) \/ cancel_order(user, order_id, TRUE)
            => /\ resp'.status = StatusForbidden
               /\ orders' = orders
               /\ gw_log' = gw_log
               /\ tasks' = tasks
       /\ \A t \in Slots :
            tasks[t] # Idle => is_renter(orders[tasks[t].id], tasks[t].user)]_vars

C6_Witness ==
    /\ resp.op \in {"confirm", "cancel"}
    /\ resp.status = StatusForbidden
    /\ resp.user \in Users
    /\ resp.id \in ExistingOrders
    /\ ~is_renter(orders[resp.id], resp.user)

\* C7: Webhook idempotence.  After a delivery of a payment event that was
\* verified and processed, a second delivery of the same event changes neither
\* the Orders table nor the users table; and the order that the event names,
\* when it exists, is paid after the first delivery.  (Every delivery is
\* answered; that is stated first, so that the handler is evaluated on
\* answered deliveries only.)
C7_WebhookIdempotent ==
    [][\A body \in PaymentEvents :
        /\ resp'.op = "webhook"
        /\ webhook_outcome("valid", body) = "process"
        /\ stripe_webhook("valid", body, TRUE)
        => /\ webhook_orders(orders', "valid", body, TRUE) = orders'
           /\ webhook_users(users', "valid", body, TRUE) = users'
           /\ \A o \in ExistingOrders :
                webhook_order_id("valid", body) = Some(o)
                    => orders'[o].status = "paid"]_vars

C7_Witness ==
    /\ resp.op = "webhook"
    /\ resp.status = StatusOK
    /\ resp.id \in ExistingOrders
    /\ orders[resp.id].status = "paid"

\* C8: The webhook answers 200 only to a delivery whose signature verified
\* against the shared secret; a delivery with a wrong signature, with no
\* signature header, or with no secret to verify against is answered 400 and
\* changes no order and no user row.
signature_verifies(sig) == cfg.stripe /\ cfg.secret /\ sig = "valid"

C8_UnverifiedIsRejected ==
    [][\A sig \in Signatures, body \in Events :
        stripe_webhook(sig, body, TRUE)
        => /\ resp'.status = StatusOK => signature_verifies(sig)
           /\ ~signature_verifies(sig)
                => /\ resp'.status = StatusBadRequest
                   /\ orders' = orders
                   /\ users' = users]_vars

\* C9: A rent request by a logged-in renter on an existing listing, with
\* quantity > 0 and parseable dates from <= start <= end <= until inside the
\* listing's window, inserts exactly one row: the rows before it are kept,
\* the new row is pending_review with no session id and no checkout URL and
\* records the renter, the listing, the quantity and the dates of the form;
\* the renter is sent to the confirm page of the new order.
inside_window(payload, post) ==
    LET start_date == parse_from_str(payload.start_date)
        end_date == parse_from_str(payload.end_date)
        available_from == parse_from_str(post.available_date)
        available_until == parse_from_str(post.end_date)
    IN  /\ is_some(start_date) /\ is_some(end_date)
        /\ is_some(available_from) /\ is_some(available_until)
        /\ unwrap(available_from) <= unwrap(start_date)
        /\ unwrap(start_date) <= unwrap(end_date)
        /\ unwrap(end_date) <= unwrap(available_until)

C9_ValidRequestCreatesOrder ==
    [][\A user \in Users, id \in 1..Len(posts), payload \in AllForms :
        /\ resp'.user = user /\ resp'.id = id
        /\ payload.quantity > 0
        /\ inside_window(payload, posts[id])
        /\ rent_request(user, id, payload, TRUE)
        => /\ Len(orders') = Len(orders) + 1
           /\ SubSeq(orders', 1, Len(orders)) = orders
           /\ LET order == orders'[Len(orders')] IN
                /\ order.status = "pending_review"
                /\ order.stripe_session_id = None
                /\ order.stripe_checkout_url = None
                /\ order.renter_user_id = user
                /\ order.renter_name = users[user].name
                /\ order.renter_email = users[user].email
                /\ order.post_id = id
                /\ order.quantity = payload.quantity
                /\ order.start_date = payload.start_date
                /\ order.end_date = payload.end_date
           /\ resp'.status = StatusSeeOther
           /\ resp'.arg = Len(orders')]_vars

C9_Witness ==
    /\ resp.op = "rent"
    /\ resp.status = StatusSeeOther
    /\ resp.user \in Users
    /\ resp.arg = Len(orders)
    /\ orders[resp.arg].post_id = resp.id
    /\ orders[resp.arg].renter_user_id = resp.user
    /\ orders[resp.arg].start_date = posts[resp.id].available_date
    /\ orders[resp.arg].end_date = posts[resp.id].end_date
    /\ orders[resp.arg].status = "pending_review"

\* C10: A rent request by a logged-in renter on an existing listing whose
\* start or end date does not parse, whose end is before its start, whose
\* range leaves the listing's window (start < available_from or
\* end > available_until), or whose quantity is <= 0, is answered 400 and
\* leaves the Orders table as it was.
request_invalid(payload, post) ==
    LET start_date == parse_from_str(payload.start_date)
        end_date == parse_from_str(payload.end_date)
        available_from == parse_from_str(post.available_date)
        available_until == parse_from_str(post.end_date)
    IN  \/ payload.quantity <= 0
        \/ ~is_some(start_date)
        \/ ~is_some(end_date)
        \/ is_some(start_date) /\ is_some(end_date)
              /\ unwrap(end_date) < unwrap(start_date)
        \/ is_some(start_date) /\ is_some(available_from)
              /\ unwrap(start_date) < unwrap(available_from)
        \/ is_some(end_date) /\ is_some(available_until)
              /\ unwrap(end_date) > unwrap(available_until)

C10_InvalidRequestCreatesNothing ==
    [][\A user \in Users, id \in 1..Len(posts), payload \in AllForms :
        /\ resp'.user = user /\ resp'.id = id
        /\ request_invalid(payload, posts[id])
        /\ rent_request(user, id, payload, TRUE)
        => /\ resp'.status = StatusBadRequest
           /\ orders' = orders]_vars

C10_Witness ==
    /\ resp.op = "rent"
    /\ resp.status = StatusBadRequest
    /\ resp.user \in Users
    /\ resp.id \in 1..Len(posts)
    /\ Len(orders) > 0

\* C11: A rent request by a logged-in renter that names a listing which does
\* not exist is answered 404 and creates no order row, whatever its quantity
\* and dates are.
C11_MissingListingIsNotFound ==
    [][\A user \in Users, id \in PostIds, payload \in AllForms :
        /\ resp'.user = user /\ resp'.id = id
        /\ ~is_some(fetch_post(id))
        /\ rent_request(user, id, payload, TRUE)
        => /\ resp'.status = StatusNotFound
           /\ orders' = orders]_vars

\* C12: When the renter's confirm of an order that was pending_review gets a
\* session from the gateway, its UPDATE leaves the order submitted with the
\* id and the checkout URL of that session, changes no other field and no
\* other row, and the renter is redirected (303) to that checkout URL.
C12_ConfirmWithSession ==
    [][\A t \in Slots :
        /\ tasks[t].op = "confirm" /\ tasks[t].pc = "update"
        /\ is_some(tasks[t].session)
        /\ unwrap(tasks[t].row).status = "pending_review"
        /\ confirm_submit_update(t, TRUE)
        => LET order_id == tasks[t].id
               session == unwrap(tasks[t].session)
           IN  /\ orders'[order_id].status = "submitted"
               /\ orders'[order_id].stripe_session_id = Some(session.id)
               /\ orders'[order_id].stripe_checkout_url = Some(session.url)
               /\ \A f \in DOMAIN orders[order_id] \
                            {"status", "stripe_session_id", "stripe_checkout_url"} :
                    orders'[order_id][f] = orders[order_id][f]
               /\ Len(orders') = Len(orders)
               /\ \A o \in ExistingOrders \ {order_id} : orders'[o] = orders[o]
               /\ resp'.status = StatusSeeOther
               /\ resp'.user = tasks[t].user
               /\ <<resp'.to, resp'.arg>> = session.url]_vars

C12_Witness ==
    /\ resp.op = "confirm"
    /\ resp.status = StatusSeeOther
    /\ resp.id \in ExistingOrders
    /\ orders[resp.id].status = "submitted"
    /\ orders[resp.id].stripe_checkout_url = Some(<<resp.to, resp.arg>>)
    /\ is_some(orders[resp.id].stripe_session_id)
    /\ resp.user = orders[resp.id].renter_user_id

\* C13: When the renter's confirm of an order that was pending_review has no
\* session (no gateway client is configured, or the gateway returned none),
\* its UPDATE leaves the order submitted, writes neither the session id nor
\* the checkout URL (both are as they were, unset for an order that no other
\* confirm touched), changes no other row, and the answer is 200, the
\* 'pending' page, with no redirect.
C13_ConfirmWithoutSession ==
    [][\A t \in Slots :
        /\ tasks[t].op = "confirm" /\ tasks[t].pc = "update"
        /\ ~is_some(tasks[t].session)
        /\ unwrap(tasks[t].row).status = "pending_review"
        /\ confirm_submit_update(t, TRUE)
        => LET order_id == tasks[t].id IN
               /\ orders'[order_id].status = "submitted"
               /\ \A f \in DOMAIN orders[order_id] \ {"status"} :
                    orders'[order_id][f] = orders[order_id][f]
               /\ orders[order_id].status = "pending_review"
                    => /\ orders'[order_id].stripe_session_id = None
                       /\ orders'[order_id].stripe_checkout_url = None
               /\ Len(orders') = Len(orders)
               /\ \A o \in ExistingOrders \ {order_id} : orders'[o] = orders[o]
               /\ resp'.status = StatusOK
               /\ resp'.to = ""
               /\ resp'.user = tasks[t].user]_vars

C13_Witness ==
    /\ resp.op = "confirm"
    /\ resp.status = StatusOK
    /\ resp.id \in ExistingOrders
    /\ orders[resp.id].status = "submitted"
    /\ orders[resp.id].stripe_session_id = None
    /\ orders[resp.id].stripe_checkout_url = None
    /\ resp.user = orders[resp.id].renter_user_id

C15_FailedGatewayKeepsPendingReview ==
    [][\A t \in Slots :
        /\ tasks[t].pc = "update" /\ cfg.stripe /\ cfg.client
        /\ ~is_some(tasks[t].session)
        /\ orders[tasks[t].id].status = "pending_review"
        /\ confirm_submit_update(t, TRUE)
        => orders'[tasks[t].id].status = "pending_review"]_vars

\* C16: Cancel is guarded and idempotent.  A cancel by the order's renter is
\* answered 303; it sets the order to cancelled when the order is
\* pending_review or submitted, and changes nothing when the order is already
\* cancelled or paid.
C16_CancelIsGuarded ==
    [][\A user \in Users, order_id \in ExistingOrders :
        /\ resp'.user = user /\ resp'.id = order_id
        /\ is_renter(orders[order_id], user)
        /\ cancel_order(user, order_id, TRUE)
        => /\ resp'.status = StatusSeeOther
           /\ orders[order_id].status \in {"pending_review", "submitted"}
                => orders'[order_id].status = "cancelled"
           /\ orders[order_id].status \in Terminal => orders' = orders]_vars

\* C17: The end-to-end scenario, step by step.  On the listing with window
\* 2025-01-01 .. 2025-03-01, the request (quantity 2, 2025-01-05 ..
\* 2025-01-10) creates a pending_review order; the confirm of that order with
\* no session makes it submitted with no checkout URL; a verified payment
\* event for the submitted order makes it paid; a cancel of the paid order
\* by its renter changes nothing.
ScenarioForm == NewOrder(2, Ymd(2025, 1, 5), Ymd(2025, 1, 10))

is_scenario_order(order) ==
    /\ order.post_id = 1
    /\ posts[1].available_date = Ymd(2025, 1, 1)
    /\ posts[1].end_date = Ymd(2025, 3, 1)
    /\ order.quantity = ScenarioForm.quantity
    /\ order.start_date = ScenarioForm.start_date
    /\ order.end_date = ScenarioForm.end_date

C17_EndToEndScenario ==
    [][/\ \A user \in Users :
            /\ resp'.user = user /\ resp'.id = 1
            /\ rent_request(user, 1, ScenarioForm, TRUE)
            => /\ Len(orders') = Len(orders) + 1
               /\ is_scenario_order(orders'[Len(orders')])
               /\ orders'[Len(orders')].status = "pending_review"
       /\ \A t \in Slots :
            /\ tasks[t].pc = "update" /\ ~is_some(tasks[t].session)
            /\ is_scenario_order(orders[tasks[t].id])
            /\ orders[tasks[t].id].status = "pending_review"
            /\ confirm_submit_update(t, TRUE)
            => /\ orders'[tasks[t].id].status = "submitted"
               /\ orders'[tasks[t].id].stripe_checkout_url = None
       /\ \A o \in ExistingOrders :
            /\ resp'.op = "webhook"
            /\ is_scenario_order(orders[o]) /\ orders[o].status = "submitted"
            /\ webhook_outcome("valid", CheckoutCompleted(MetaDigits(o))) = "process"
            /\ stripe_webhook("valid", CheckoutCompleted(MetaDigits(o)), TRUE)
            => orders'[o].status = "paid"
       /\ \A o \in ExistingOrders :
            /\ resp'.op = "cancel"
            /\ is_scenario_order(orders[o]) /\ orders[o].status = "paid"
            /\ orders[o].stripe_checkout_url = None
            /\ cancel_order(orders[o].renter_user_id, o, TRUE)
            => /\ orders' = orders
               /\ resp'.status = StatusSeeOther]_vars

\* C18: Order reads are scoped to the renter.  The list that GET /orders
\* returns to a logged-in user holds only orders whose renter is that user;
\* the detail page and the confirm page of an order answer 200 to its renter,
\* 403 to any other logged-in user, and 404 when the order does not exist.
C18_ReadsAreOwnershipScoped ==
    [][/\ \A user \in DOMAIN users :
            /\ resp'.op = "orders" /\ resp'.user = user
            /\ my_orders(user)
            => \A i \in 1..Len(resp'.arg) : is_renter(orders[resp'.arg[i]], user)
       /\ \A user \in DOMAIN users, order_id \in OrderIds :
            /\ resp'.user = user /\ resp'.id = order_id
            /\ order_detail(user, order_id) \/ confirm_page(user, order_id)
            => resp'.status = IF order_id \notin ExistingOrders THEN StatusNotFound
                              ELSE IF is_renter(orders[order_id], user) THEN StatusOK
                              ELSE StatusForbidden]_vars

\* C19: Persistence failures are surfaced.  When the INSERT of a rent
\* request, the UPDATE of a confirm or the UPDATE of a cancel fails, the
\* answer is 500 and the Orders table is as it was.
C19_WriteFailureIsSurfaced ==
    [][/\ \A user \in Users, payload \in ScenarioForms :
            /\ resp'.user = user /\ resp'.id = 1
            /\ rent_outcome(user, 1, payload) = "insert"
            /\ rent_request(user, 1, payload, FALSE)
            => resp'.status = StatusInternalServerError /\ orders' = orders
       /\ \A t \in Slots :
            /\ tasks[t].pc = "update"
            /\ confirm_submit_update(t, FALSE)
            => resp'.status = StatusInternalServerError /\ orders' = orders
       /\ \A user \in Users, order_id \in ExistingOrders :
            /\ resp'.user = user /\ resp'.id = order_id
            /\ is_renter(orders[order_id], user)
            /\ cancel_order(user, order_id, FALSE)
            => resp'.status = StatusInternalServerError /\ orders' = orders]_vars


\* C20: Every row of Orders has quantity > 0, a start date and an end date
\* with start <= end, and a range inside the window of its listing, the
\* listings whose stored window is empty or does not parse included: the
\* window's two dates are dates, available_from <= start and
\* end <= available_until.
row_in_window(row, post) ==
    LET start_date == parse_from_str(row.start_date)
        end_date == parse_from_str(row.end_date)
        available_from == parse_from_str(post.available_date)
        available_until == parse_from_str(post.end_date)
    IN  /\ is_some(start_date) /\ is_some(end_date)
        /\ unwrap(start_date) <= unwrap(end_date)
        /\ is_some(available_from) /\ is_some(available_until)
        /\ unwrap(available_from) <= unwrap(start_date)
        /\ unwrap(end_date) <= unwrap(available_until)

C20_OrderRowInvariant ==
    \A order_id \in ExistingOrders :
        /\ orders[order_id].quantity > 0
        /\ row_in_window(orders[order_id], posts[orders[order_id].post_id])


\* C21: Orders are never deleted and only their status and session fields
\* change.  No step removes a row or changes the post_id, renter_user_id,
\* renter_name, renter_email, quantity, start_date or end_date of a row; a
\* row changes only in a step of confirm, cancel or the webhook; cancel and
\* the webhook change only its status, confirm only its status, session id
\* and checkout URL.
SessionFields == {"stripe_session_id", "stripe_checkout_url"}
changed_fields(before, after) == {f \in DOMAIN before : before[f] # after[f]}

C21_OnlyStatusAndSessionChange ==
    [][/\ Len(orders') >= Len(orders)
       /\ orders' # orders =>
            \A order_id \in ExistingOrders :
                LET changed == changed_fields(orders[order_id], orders'[order_id])
                IN  /\ changed \subseteq {"status"} \cup SessionFields
                    /\ changed # {} => resp'.op \in {"confirm", "cancel", "webhook"}
                    /\ resp'.op \in {"cancel", "webhook"} => changed \subseteq {"status"}]_vars

C21_Witness ==
    /\ resp.op = "cancel"
    /\ resp.status = StatusSeeOther
    /\ resp.id \in ExistingOrders
    /\ orders[resp.id].status = "cancelled"
    /\ is_some(orders[resp.id].stripe_session_id)
    /\ is_some(orders[resp.id].stripe_checkout_url)
    /\ orders[resp.id].quantity = 2
    /\ orders[resp.id].renter_user_id = resp.user


\* C22: The amount confirm requests from the gateway is price x quantity x
\* day-count, with day-count = max(1, end - start in days).  Every request
\* made to the gateway has one line item whose unit amount is the price of
\* the listing in minor units (price * 100) and whose quantity is the
\* quantity of the order times the day count.
day_count(order) ==
    LET days == DayNumber(order.end_date.y, order.end_date.m, order.end_date.d)
                    - DayNumber(order.start_date.y, order.start_date.m, order.start_date.d)
    IN  IF days < 1 THEN 1 ELSE days

C22_RequestedAmount ==
    \A i \in 1..Len(gw_log) :
        LET request == gw_log[i]
            order == orders[request.order_id]
            post == posts[order.post_id]
        IN  /\ request.op = "checkout"
            /\ request.unit_amount = post.price * 100
            /\ request.quantity = order.quantity * day_count(order)
            /\ request.unit_amount * request.quantity
                    = 100 * (post.price * order.quantity * day_count(order))

C22_Witness ==
    /\ Len(gw_log) = 2
    /\ gw_log[1].unit_amount = 2500
    /\ gw_log[1].quantity = 3 * 59
    /\ gw_log[2].quantity = 1
    /\ gw_log[2].order_id # gw_log[1].order_id
    /\ orders[gw_log[2].order_id].start_date = orders[gw_log[2].order_id].end_date


\* C23: A verified event of another type is acknowledged and ignored.  When
\* the webhook receives, with the signature of the body under the
\* configured secret, an event whose type is neither
\* checkout.session.completed nor account.updated, it answers 200 and no
\* row of Orders or users changes.
C23_OtherEventIsIgnored ==
    [][\A body \in Events :
        /\ resp'.op = "webhook"
        /\ body.json
        /\ body.type \notin {"checkout.session.completed", "account.updated"}
        /\ signature_verifies("valid")
        /\ stripe_webhook("valid", body, TRUE)
        => /\ resp'.status = StatusOK
           /\ orders' = orders
           /\ users' = users]_vars

C23_Witness ==
    /\ cfg.stripe /\ cfg.secret
    /\ resp = Response("webhook", Anonymous, 0, StatusOK, "", 0)
    /\ \E order_id \in ExistingOrders : orders[order_id].status \notin Terminal


\* C24: A delivery whose signature verifies but whose body is not JSON is
\* acknowledged.  When the webhook receives such a body with its signature
\* under the configured secret, it answers 200 and no row of Orders or users
\* changes.
C24_MalformedBodyIsAcknowledged ==
    [][/\ resp'.op = "webhook"
       /\ signature_verifies("valid")
       /\ stripe_webhook("valid", Malformed, TRUE)
       => /\ resp'.status = StatusOK
          /\ orders' = orders
          /\ users' = users]_vars


\* C25: A verified account.updated event for the external account id A sets
\* the verified flag of exactly the users whose linked account is A to
\* (charges_enabled and payouts_enabled) or (requirements.currently_due is
\* present and empty).  Every other user row and every order is unchanged,
\* and an event whose account no user has linked changes nothing.
event_verified(body) ==
    IF (body.charges = "true" /\ body.payouts = "true") \/ body.due = "empty"
    THEN 1 ELSE 0

C25_AccountEventSetsVerified ==
    [][\A body \in AccountEvents :
        /\ resp'.op = "webhook"
        /\ signature_verifies("valid")
        /\ stripe_webhook("valid", body, TRUE)
        => /\ orders' = orders
           /\ DOMAIN users' = DOMAIN users
           /\ \A u \in DOMAIN users :
                IF body.aid # 0 /\ users[u].stripe_connect_account_id = Some(body.aid)
                THEN users'[u] = [users[u] EXCEPT
                                    !.stripe_connect_verified = event_verified(body)]
                ELSE users'[u] = users[u]]_vars

C25_Witness ==
    /\ cfg.stripe /\ cfg.secret
    /\ resp.op = "webhook" /\ resp.status = StatusOK
    /\ Len(users) = 2
    /\ users[1].stripe_connect_account_id = Some(1)
    /\ users[1].stripe_connect_verified = 1
    /\ users[2].stripe_connect_account_id = Some(2)
    /\ users[2].stripe_connect_verified = 0
    /\ Len(orders) = 1


\* C26: A manual refresh and the webhook compute the verified flag alike.
\* For every account the gateway can report for the account a user has
\* linked (charges_enabled and payouts_enabled true, false or absent,
\* currently_due absent, empty or non-empty), the users table after
\* GET /me/refresh_connect retrieved that account is the users table a
\* verified account.updated event with the same data would leave.
C26_RefreshMatchesWebhook ==
    [][\A user \in DOMAIN users, charges \in FlagTexts, payouts \in FlagTexts,
           due \in DueTexts :
        /\ resp'.op = "refresh" /\ resp'.user = user
        /\ cfg.stripe /\ cfg.client /\ cfg.secret
        /\ is_some(users[user].stripe_connect_account_id)
        /\ refresh_connect(user, TRUE, charges, payouts, due, TRUE)
        => users' = webhook_users(users, "valid",
                        AccountUpdated(unwrap(users[user].stripe_connect_account_id),
                                       charges, payouts, due),
                        TRUE)]_vars

C26_Witness ==
    /\ cfg.stripe /\ cfg.client /\ cfg.secret
    /\ resp.op = "refresh"
    /\ resp.user \in DOMAIN users
    /\ is_some(users[resp.user].stripe_connect_account_id)
    /\ users[resp.user].stripe_connect_verified = 1
    /\ \E u \in DOMAIN users :
            /\ u # resp.user
            /\ is_some(users[u].stripe_connect_account_id)
            /\ users[u].stripe_connect_verified = 0


\* C29: GET /me/verify creates an account at the gateway only for a user
\* with no linked account, stores its id, and answers with the onboarding
\* link of the user's account when the gateway gives one; a call for a user
\* who has a linked account creates none and asks a link for that account.
\* Without the stripe feature or without a client the call makes no request
\* to the gateway, changes no user row and answers the account page.
new_requests == SubSeq(gw_log', Len(gw_log) + 1, Len(gw_log'))
creations(requests) ==
    {i \in 1..Len(requests) : requests[i].op = "account.create"}

C29_EnsureLinkedAccount ==
    [][\A user \in DOMAIN users, created \in BOOLEAN, linked \in BOOLEAN :
        /\ resp'.op = "verify" /\ resp'.user = user
        /\ connect_verify(user, created, linked, TRUE)
        => LET current == users[user].stripe_connect_account_id IN
           /\ ~(cfg.stripe /\ cfg.client)
                => /\ gw_log' = gw_log
                   /\ users' = users
                   /\ resp'.status = StatusOK
           /\ cfg.stripe /\ cfg.client /\ is_some(current)
                => /\ creations(new_requests) = {}
                   /\ users' = users
                   /\ linked => /\ resp'.status = StatusSeeOther
                                /\ resp'.to = "onboarding"
                                /\ resp'.arg = unwrap(current)
           /\ cfg.stripe /\ cfg.client /\ ~is_some(current)
                => /\ Cardinality(creations(new_requests)) = 1
                   /\ \A u \in DOMAIN users : u # user => users'[u] = users[u]
                   /\ created
                        => /\ is_some(users'[user].stripe_connect_account_id)
                           /\ \A u \in DOMAIN users :
                                u # user => users[u].stripe_connect_account_id
                                                # users'[user].stripe_connect_account_id
                           /\ linked => /\ resp'.status = StatusSeeOther
                                        /\ resp'.to = "onboarding"
                                        /\ Some(resp'.arg)
                                            = users'[user].stripe_connect_account_id
                   /\ ~created => users' = users /\ resp'.status = StatusOK]_vars

C29_Witness ==
    /\ resp.op = "verify"
    /\ resp.to = "onboarding"
    /\ resp.user \in DOMAIN users
    /\ users[resp.user].stripe_connect_account_id = Some(resp.arg)
    /\ Cardinality({i \in 1..Len(gw_log) :
            gw_log[i] = account_request("account.create", resp.user, resp.arg)}) = 1
    /\ Cardinality({i \in 1..Len(gw_log) :
            gw_log[i] = account_request("account_link.create", resp.user, resp.arg)}) = 2


\* C27: Verification gates listing creation.  A POST /new_post by a caller
\* with no session, or by a user whose verified flag is 0, adds no listing,
\* and every listing the request adds belongs to a user whose verified flag
\* is 1 when the row is inserted.
C27_VerifiedGate ==
    [][/\ \A user \in Sessions, payload \in PostForms :
            /\ user \in DOMAIN users => users[user].stripe_connect_verified = 0
            /\ new_post_request(user, payload)
            => /\ posts' = posts
               /\ tasks' = tasks
       /\ posts' # posts
            => /\ Len(posts') = Len(posts) + 1
               /\ posts'[Len(posts')].user_id \in DOMAIN users
               /\ users[posts'[Len(posts')].user_id].stripe_connect_verified = 1]_vars


\* C28: A signed-up, logged-in user's POST /new_post with a title, a
\* location, a price, a number of spaces and a start date is answered 200
\* and adds the post, whose title GET /me then lists under "My Posts".
has_start_date(payload) == is_some(parse_from_str(payload.available_date))

C28_NewPostThenListed ==
    [][/\ \A user \in DOMAIN users, payload \in PostForms :
            /\ has_start_date(payload)
            /\ new_post_request(user, payload)
            => tasks' # tasks
       /\ \A t \in Slots :
            /\ tasks[t].op = "new_post"
            /\ has_start_date(unwrap(tasks[t].row))
            /\ new_post_insert(t, TRUE)
            => /\ resp'.status = StatusOK
               /\ Len(posts') = Len(posts) + 1
               /\ posts'[Len(posts')].title = unwrap(tasks[t].row).title
               /\ posts'[Len(posts')].user_id = tasks[t].user
       /\ \A user \in DOMAIN users :
            /\ resp'.op = "me" /\ resp'.user = user
            /\ me_page(user)
            => /\ resp'.status = StatusOK
               /\ \A id \in 1..Len(posts) :
                    posts[id].user_id = user
                    => \E i \in 1..Len(resp'.arg) : resp'.arg[i].title = posts[id].title]_vars


\* C30: The verified flag of a user is 0 from signup, and a step changes it
\* only if it is a GET /me/refresh_connect of that user or a webhook
\* delivery of an account.updated event for the account that user has
\* linked; it becomes 1 only when that refresh or event reports the account
\* verified.  No rent, confirm or cancel, no payment event and no event for
\* another account changes it.
own_account_event(u, body) ==
    /\ body.type = "account.updated"
    /\ body.aid # 0
    /\ users[u].stripe_connect_account_id = Some(body.aid)

C30_VerifiedOnlyByOwnAccount ==
    [][/\ Len(users') >= Len(users)
       /\ \A u \in DOMAIN users' :
            u \notin DOMAIN users => users'[u].stripe_connect_verified = 0
       /\ \A u \in DOMAIN users :
            users'[u].stripe_connect_verified # users[u].stripe_connect_verified
            => \/ /\ resp'.op = "refresh" /\ resp'.user = u
                  /\ \E retrieved \in BOOLEAN, a \in SellerData :
                        /\ refresh_connect(u, retrieved, a[1], a[2], a[3], TRUE)
                        /\ users'[u].stripe_connect_verified = 1
                            => refresh_verified(a[1], a[2], a[3])
               \/ /\ resp'.op = "webhook"
                  /\ \E body \in SellerEvents :
                        /\ own_account_event(u, body)
                        /\ stripe_webhook("valid", body, TRUE)
                        /\ users'[u].stripe_connect_verified = event_verified(body)]_vars

C30_Witness ==
    /\ Len(users) = 2
    /\ users[2].stripe_connect_verified = 1
    /\ is_some(users[2].stripe_connect_account_id)
    /\ users[1].stripe_connect_verified = 0
    /\ is_some(users[1].stripe_connect_account_id)
    /\ Len(orders) = 1
    /\ orders[1].status = "cancelled"
    /\ resp.op = "cancel"


C32_RentRedirectsToCheckout ==
    [][(resp'.op = "rent" /\ cfg.stripe /\ cfg.client /\ Len(orders') > Len(orders))
        => /\ resp'.status = StatusSeeOther
           /\ resp'.to = "checkout"
           /\ \E n \in 1..Len(gw_log') : resp'.arg = session_of(n).id[2]]_vars


\* C33: Listing visibility.  A toggle by the owner of a visible post hides
\* it: the public list, under any filter, no longer holds the post, and the
\* owner's account page still holds it, marked hidden.  A toggle by anyone
\* other than the owner (another user, or no session) changes no post.  A
\* second toggle by the owner gives back the table before the first.  A
\* toggle changes no post other than the one of its path.
appears_public(id, filter) ==
    \E i \in 1..Len(get_posts_filtered(Len(posts), filter)) :
        get_posts_filtered(Len(posts), filter)[i] = id
appears_on_me(id, user, hidden) ==
    \E i \in 1..Len(get_posts_by_user(Len(posts), user)) :
        /\ get_posts_by_user(Len(posts), user)[i].id = id
        /\ get_posts_by_user(Len(posts), user)[i].hidden = hidden

C33_ToggleVisibility ==
    [][\A user \in Callers, id \in 1..Len(posts) :
        (resp'.op = "toggle" /\ resp'.user = user /\ resp'.id = id
            /\ toggle_visibility(user, id, TRUE))
        => /\ \A other \in 1..Len(posts) : other # id => posts'[other] = posts[other]
           /\ posts[id].user_id # user => posts' = posts
           /\ posts[id].user_id = user =>
                /\ update_visible(posts', id, user, TRUE) = posts
                /\ posts[id].visible = 1 =>
                    /\ \A filter \in VisibilityFilters : ~appears_public(id, filter)'
                    /\ appears_on_me(id, user, TRUE)'
                    /\ appears_public(id, [max_price |-> None])]_vars

\* The owner of a post has just hidden it, and it was visible before: it is
\* on the owner's account page with the badge and not on the public list.
C33_Witness ==
    /\ resp.op = "toggle" /\ resp.status = StatusSeeOther
    /\ resp.id \in 1..Len(posts)
    /\ posts[resp.id].user_id = resp.user
    /\ posts[resp.id].visible = 0
    /\ appears_on_me(resp.id, resp.user, TRUE)
    /\ ~appears_public(resp.id, [max_price |-> None])
    /\ \E other \in 1..Len(posts) : posts[other].user_id # resp.user


\* C34: User emails are unique.  In every reachable state no two rows of
\* users hold the same email, whatever the interleaving of the duplicate
\* checks and the statements of signups and profile updates.  A signup with
\* a name and a password that pass validation and an email that, trimmed
\* and in lower case, is the email of a user, is answered 409 and adds no
\* row; so is a signup whose email was taken between its check and its
\* INSERT.
emails_unique(rows) ==
    \A u1 \in DOMAIN rows, u2 \in DOMAIN rows : u1 # u2 => rows[u1].email # rows[u2].email

C34_EmailsAreUnique ==
    /\ [] emails_unique(users)
    /\ [][/\ \A email \in CollidingEmails :
                (resp'.op = "signup" /\ exists_by_email(to_lowercase(trim(email)))
                    /\ (\/ signup_check(NameOf(2), email, MinPasswordLen)
                        \/ signup_request(NameOf(2), email, MinPasswordLen)))
                => resp'.status = StatusConflict /\ users' = users
          /\ \A t \in Slots :
                (tasks[t].op = "signup" /\ exists_by_email(unwrap(tasks[t].row).email)
                    /\ signup_insert(t))
                => resp'.status = StatusConflict /\ users' = users
          /\ resp'.op = "signup" /\ resp'.status # StatusSeeOther => users' = users]_vars

\* A signup has just been answered 409, at its check or at its INSERT, while
\* two users hold the two addresses.
C34_Witness ==
    /\ resp.op = "signup" /\ resp.status = StatusConflict
    /\ Len(users) = NumUsers
    /\ \E u \in DOMAIN users : users[u].email = EmailOf(2)
    /\ users[1].email = EmailOf(1)
    /\ tasks = [t \in Slots |-> Idle]


\* C35: At most one checkout session per order.  A confirm sends a request
\* to the gateway only for an order that is pending_review at that moment,
\* no two requests to the gateway name the same order, and once an order
\* has a session id and a checkout URL no step changes them.
C35_OneSessionPerOrder ==
    [][/\ Len(gw_log') > Len(gw_log) =>
            LET request == gw_log'[Len(gw_log')] IN
                request.op = "checkout" =>
                    /\ orders[request.order_id].status = "pending_review"
                    /\ \A i \in 1..Len(gw_log) :
                            gw_log[i].op = "checkout" => gw_log[i].order_id # request.order_id
       /\ \A order_id \in ExistingOrders :
            is_some(orders[order_id].stripe_session_id) =>
                /\ orders'[order_id].stripe_session_id = orders[order_id].stripe_session_id
                /\ orders'[order_id].stripe_checkout_url = orders[order_id].stripe_checkout_url]_vars


\* C36: Session fields.  In every reachable state an order has a session id
\* if and only if it has a checkout URL, and an order that is
\* pending_review has neither.  A step changes the session id or the
\* checkout URL of an order only if it is the end of a confirm of that
\* order which the gateway had answered with a session, and it stores the
\* id and the URL of that session.
session_fields_paired(order) ==
    /\ is_some(order.stripe_session_id) <=> is_some(order.stripe_checkout_url)
    /\ order.status = "pending_review" =>
            order.stripe_session_id = None /\ order.stripe_checkout_url = None

C36_SessionFields ==
    /\ [] (\A order_id \in ExistingOrders : session_fields_paired(orders[order_id]))
    /\ [][\A order_id \in ExistingOrders :
            changed_fields(orders[order_id], orders'[order_id]) \cap SessionFields # {}
            => \E t \in Slots :
                /\ tasks[t].op = "confirm" /\ tasks[t].pc = "update"
                /\ tasks[t].id = order_id
                /\ is_some(tasks[t].session)
                /\ orders'[order_id].stripe_session_id = Some(unwrap(tasks[t].session).id)
                /\ orders'[order_id].stripe_checkout_url = Some(unwrap(tasks[t].session).url)
                /\ \E n \in 1..Len(gw_log) :
                    /\ gw_log[n].op = "checkout" /\ gw_log[n].order_id = order_id
                    /\ session_of(n) = unwrap(tasks[t].session)
                /\ resp'.op = "confirm" /\ resp'.id = order_id]_vars

\* One order holds the session of its confirm, id and URL, and another is
\* still in review with neither.
C36_Witness ==
    \E o1 \in ExistingOrders, o2 \in ExistingOrders :
        /\ orders[o1].status = "submitted"
        /\ orders[o1].stripe_session_id = Some(session_of(1).id)
        /\ orders[o1].stripe_checkout_url = Some(session_of(1).url)
        /\ orders[o2].status = "pending_review"
        /\ orders[o2].stripe_session_id = None
        /\ resp.op = "confirm" /\ resp.id = o1


\* C37: Requests to GET /me/verify at once for a user with no linked
\* account create at most one account at the gateway for that user, and
\* when a request has just been answered with the onboarding link of an
\* account, that account is the one stored for the user.
accounts_created_for(u) ==
    {gw_log[i].aid :
        i \in {j \in 1..Len(gw_log) :
                /\ gw_log[j].op = "account.create"
                /\ gw_log[j].user = u
                /\ gw_log[j].aid # 0}}

C37_OneAccountPerUser ==
    /\ \A u \in DOMAIN users : Cardinality(accounts_created_for(u)) <= 1
    /\ (resp.op = "verify" /\ resp.to = "onboarding")
        => users[resp.user].stripe_connect_account_id = Some(resp.arg)


\* C38: A verified checkout.session.completed event changes at most the
\* order whose id is the number in metadata.order_id: every other order and
\* every user row is unchanged and no row is added.  An event whose
\* order_id is absent, is not a number, or is the id of no order changes no
\* order.  The event is answered 200 in each case.
names_order(body, order_id) ==
    body.order_id.kind = "digits" /\ body.order_id.n = order_id

C38_PaymentEventFrame ==
    [][\A body \in PaymentEvents :
        /\ resp'.op = "webhook"
        /\ resp'.id = unwrap_or(event_order_id(body), 0)
        /\ signature_verifies("valid")
        /\ stripe_webhook("valid", body, TRUE)
        => /\ resp'.status = StatusOK
           /\ users' = users
           /\ Len(orders') = Len(orders)
           /\ \A order_id \in ExistingOrders :
                ~names_order(body, order_id) => orders'[order_id] = orders[order_id]
           /\ (\A order_id \in ExistingOrders : ~names_order(body, order_id))
                => orders' = orders]_vars

\* A payment event for one of two orders has just been processed: the
\* order it names is paid and the other is as it was, not paid.
C38_Witness ==
    /\ cfg.stripe /\ cfg.secret
    /\ resp.op = "webhook" /\ resp.status = StatusOK
    /\ Len(orders) = 2
    /\ resp.id \in ExistingOrders
    /\ orders[resp.id].status = "paid"
    /\ \E other \in ExistingOrders : other # resp.id /\ orders[other].status # "paid"


\* C39: The customer backfill terminates and covers everyone.  Starting at
\* cursor 0 and calling again with the returned next_cursor, an answer with
\* done = true is reached; the next_cursor of each answer is greater than
\* the cursor of its call; and in a build with a gateway client, when the
\* backfill is done every user who lacked a customer id at the start has
\* been passed to ensure_customer_for_user exactly once, and no user more
\* than once.
cursor_of_call == IF backfill_running THEN unwrap(resp.arg.next_cursor) ELSE 0

lacked_at_start(u) == users[u].stripe_customer_id # Some(LegacyCustomer)

times_ensured(u) ==
    Cardinality({i \in 1..Len(gw_log) :
                    gw_log[i].op = "customer.create" /\ gw_log[i].user = u})

C39_BackfillTerminates ==
    /\ <>backfill_done
    /\ [][(resp'.op = "backfill" /\ resp'.status = StatusOK /\ ~resp'.arg.done)
            => unwrap(resp'.arg.next_cursor) > cursor_of_call]_vars
    /\ [](\A u \in DOMAIN users :
            /\ times_ensured(u) <= 1
            /\ ~lacked_at_start(u) => times_ensured(u) = 0
            /\ (backfill_done /\ cfg.stripe /\ cfg.client /\ lacked_at_start(u))
                => times_ensured(u) = 1)


\* C40: Capacity.  Every order was created with a quantity that does not
\* exceed the spaces_available of its listing, and for every listing and
\* every date the quantities of the orders of that listing that are not
\* cancelled and cover the date sum to at most its spaces_available.  (The
\* sum over a date is largest on the first day of some order, so those days
\* are the ones examined.)
covers(order, day) ==
    /\ order.status # "cancelled"
    /\ is_some(parse_from_str(order.start_date))
    /\ is_some(parse_from_str(order.end_date))
    /\ unwrap(parse_from_str(order.start_date)) <= day
    /\ day <= unwrap(parse_from_str(order.end_date))

RECURSIVE booked(_, _, _)
booked(n, post_id, day) ==
    IF n = 0 THEN 0
    ELSE booked(n - 1, post_id, day)
         + (IF orders[n].post_id = post_id /\ covers(orders[n], day)
            THEN orders[n].quantity ELSE 0)

C40_Capacity ==
    \A order_id \in ExistingOrders :
        LET order == orders[order_id]
            post == posts[order.post_id]
        IN  /\ order.quantity <= post.spaces_available
            /\ is_some(parse_from_str(order.start_date)) =>
                booked(Len(orders), order.post_id, unwrap(parse_from_str(order.start_date)))
                    <= post.spaces_available
====
